---------------------------- MODULE Spec2Model ----------------------------
(* A model of the quad batching, sorting and buffered-submission pipeline  *)
(* of samples/webgl-sprite/scripts/webgl_render2d.js: the QuadBatch (its   *)
(* insertion-order array, depths and state tokens), its heap sort, and the *)
(* QuadEffect ring buffer with bufferData / drawRegion / drawBatch.        *)
EXTENDS Integers, Sequences, FiniteSets

(* ----------------------------- bounds ---------------------------------- *)
\* largest capacity a QuadBatch is constructed or resized with
MaxCap == 3
\* largest capacity in quads a QuadEffect is given by createResources
MaxRing == 2
\* the depths and the state tokens the callers pass to add
Depths == {1, 2}
Tokens == {1, 2}
\* comparators handed to sort
Comparators == {"backToFront", "frontToBack"}

(* ------------------------- JavaScript values --------------------------- *)
\* JavaScript values are modelled as integers: numbers and state tokens are
\* positive (array indices from 0), undefined and null are two more values.
\* the value undefined: what a read outside a typed array or of a hole yields
Undefined == -1
\* the value null: currentState before any quad was drawn
Null == 0
\* number of values an element of a Uint16Array holds
Uint16Range == 65536

\* reading array[i]: undefined outside the array (or for an index that is
\* itself undefined)
Rd(array, i) == IF i \in DOMAIN array THEN array[i] ELSE Undefined

\* conversion of a value stored into a Uint16Array element
ToUint16(v) == IF v = Undefined THEN 0 ELSE v % Uint16Range

\* array[i] = v on a Uint16Array: ignored outside the array
WrU16(array, i, v) ==
    IF i \in DOMAIN array THEN [array EXCEPT ![i] = ToUint16(v)] ELSE array

\* array[i] = v on a Float32Array (the model's depths are small integers,
\* which a float holds exactly): ignored outside the array
WrF32(array, i, v) ==
    IF i \in DOMAIN array THEN [array EXCEPT ![i] = v] ELSE array

\* array[i] = v on a JavaScript Array: the array grows to hold index i
WrArr(array, i, v) ==
    LET len == Cardinality(DOMAIN array)
        top == IF i >= len THEN i ELSE len - 1
    IN  [k \in 0..top |-> IF k = i THEN v ELSE Rd(array, k)]

\* a < b and a > b on numbers or undefined: false when either is undefined
Lt(a, b) == a # Undefined /\ b # Undefined /\ a < b
Gt(a, b) == a # Undefined /\ b # Undefined /\ a > b

(* --------------------- single-precision numbers ------------------------ *)
\* a finite single-precision number is the fraction num / den, den a power
\* of two, in lowest terms
Pow2(e) == 2 ^ e

RECURSIVE Float(_, _)
Float(num, den) ==
    IF den > 1 /\ num % 2 = 0 THEN Float(num \div 2, den \div 2)
    ELSE [num |-> num, den |-> den]

Neg(a) == [num |-> 0 - a.num, den |-> a.den]

\* sums, differences and products of doubles: exact, as every intermediate
\* value of the model has far fewer than 53 significant bits
Plus(a, b) == Float(a.num * b.den + b.num * a.den, a.den * b.den)
Minus(a, b) == Plus(a, Neg(b))
Times(a, b) == Float(a.num * b.num, a.den * b.den)

\* the integer n as a number
Num(n) == [num |-> n, den |-> 1]

\* number of bits of a single-precision significand
SignificandBits == 24

\* the exponent e that puts p / q * 2^e into [2^23, 2^24), for 0 < p / q
RECURSIVE Exponent(_, _, _)
Exponent(p, q, e) ==
    IF p * Pow2(e) >= Pow2(SignificandBits - 1) * q THEN e
    ELSE Exponent(p, q, e + 1)

\* n / q rounded to the nearest integer, ties to even
RoundHalfEven(n, q) ==
    LET lo == n \div q
        twice == 2 * (n - lo * q)
    IN  IF twice < q THEN lo
        ELSE IF twice > q THEN lo + 1
        ELSE IF lo % 2 = 0 THEN lo ELSE lo + 1

\* the value a Float32Array element holds after the quotient p / q is
\* stored into it, 0 < p / q <= 2^23 (the double the quotient passes
\* through is far finer than the distance of p / q to a tie, for the small
\* p and q used here)
fround(p, q) ==
    LET e == Exponent(p, q, 0)
    IN  Float(RoundHalfEven(p * Pow2(e), q), Pow2(e))

\* the number of low bits the positive integer n loses when it is cut to
\* the bits of a significand
RECURSIVE ExcessBits(_, _)
ExcessBits(n, s) ==
    IF n < Pow2(SignificandBits + s) THEN s ELSE ExcessBits(n, s + 1)

\* the value a Float32Array element holds after the number a, a fraction
\* with a power of two as denominator and below 2^24, is stored
store32(a) ==
    LET n == IF a.num < 0 THEN 0 - a.num ELSE a.num
        s == ExcessBits(n, 0)
        m == RoundHalfEven(n, Pow2(s))
        r == Float(m, a.den \div Pow2(s))
    IN  IF a.num < 0 THEN Neg(r) ELSE r

(* ------------------------------ state ---------------------------------- *)
VARIABLES
    quadCapacity,   \* QuadBatch.quadCapacity
    quadCount,      \* QuadBatch.quadCount
    order,          \* QuadBatch.order, Uint16Array(capacity)
    depth,          \* QuadBatch.depth, Float32Array(capacity)
    state,          \* QuadBatch.state, Array(capacity) of state tokens
    rects,          \* QuadBatch.sourceRects, targetRects, originPoint,
                    \* scaleFactor and orientation, Float32Arrays
    hasResources,   \* QuadEffect.indexData / vertexData are not null
    vertexCapacity, \* QuadEffect.vertexCapacity, in vertices
    vertexOffset,   \* QuadEffect.vertexOffset, the vertex ring cursor
    indexCapacity,  \* QuadEffect.indexCapacity, in indices
    indexOffset,    \* QuadEffect.indexOffset, the index ring cursor
    currentState,   \* QuadEffect.currentState
    appliedState,   \* the state token last handed to the applyState callback
    pc,             \* "idle", or "loop" inside drawBatch's while loop
    dbBaseIndex,    \* drawBatch's local baseIndex
    dbQuadCount,    \* drawBatch's local quadCount
    dbQuadIndex,    \* drawBatch's local quadIndex
    passes,         \* what each iteration of the running drawBatch did
    entry,          \* the cursors and currentState when drawBatch was called
    programResource,\* QuadEffect.program.programResource
    reported,       \* the errors the GLContext has emitted, in order
    projection,     \* QuadEffect.projection, Float32Array(16)
    listeners,      \* GLContext.listeners: event -> array of functions
    wrappers,       \* how many functions once() has created
    lastEmit,       \* the last emit call: its event, the functions it
                    \* invoked, in order, and whether it threw
    attributes,     \* an array of vertex attribute descriptors
    elementSize,    \* what computeBufferElementSize last returned
    buffers,        \* the buffer proxies: bindTarget and bufferResource
    activeBuffer,   \* GLContext.activeArrayBuffer, activeElementBuffer
    bound,          \* the WebGLBuffer the driver has bound to each target
    handles,        \* how many WebGLBuffer objects gl.createBuffer has made
    lastBuffer      \* the last bufferData call made by a caller: its
                    \* arguments, cursors, generator call, uploads, result

batchVars == <<quadCapacity, quadCount, order, depth, state, rects>>
ringVars == <<hasResources, vertexCapacity, vertexOffset, indexCapacity,
              indexOffset>>
drawVars == <<pc, dbBaseIndex, dbQuadCount, dbQuadIndex, passes, entry>>
bindVars == <<buffers, activeBuffer, bound, handles>>
contextVars == <<listeners, wrappers, lastEmit, attributes, elementSize,
                 bindVars>>
glVars == <<programResource, reported, projection, contextVars>>
vars == <<quadCapacity, quadCount, order, depth, state, rects,
          hasResources, vertexCapacity, vertexOffset, indexCapacity,
          indexOffset, currentState, appliedState, pc, dbBaseIndex,
          dbQuadCount, dbQuadIndex, passes, entry, programResource,
          reported, projection, listeners, wrappers, lastEmit, attributes,
          elementSize, buffers, activeBuffer, bound, handles, lastBuffer>>

(* --------------------------- comparators ------------------------------- *)
\* a comparator that leaves quads of equal depth unordered
TieBreakNone(ia, ib) == 0

\* the insertion-order tie-break shared by both comparators
TieBreak(ia, ib) == IF Gt(ia, ib) THEN 1 ELSE IF Lt(ia, ib) THEN -1 ELSE 0

backToFront(dep, ia, ib) ==
    LET depthA == Rd(dep, ia)
        depthB == Rd(dep, ib)
    IN  IF Lt(depthA, depthB) THEN 1
        ELSE IF Gt(depthA, depthB) THEN -1
        ELSE TieBreak(ia, ib)

frontToBack(dep, ia, ib) ==
    LET depthA == Rd(dep, ia)
        depthB == Rd(dep, ib)
    IN  IF Lt(depthA, depthB) THEN -1
        ELSE IF Gt(depthA, depthB) THEN 1
        ELSE TieBreak(ia, ib)

\* compare(this, ia, ib) for the comparator passed to sort
Compare(cmp, dep, ia, ib) ==
    IF cmp = "backToFront" THEN backToFront(dep, ia, ib)
    ELSE frontToBack(dep, ia, ib)

(* ----------------------------- heap sort ------------------------------- *)
\* temp = array[child]; array[child] = array[root]; array[root] = temp
SwapEntries(array, a, b) ==
    LET temp == Rd(array, b)
    IN  WrU16(WrU16(array, b, Rd(array, a)), a, temp)

\* a sift down that never looks at the second child
RECURSIVE siftDownFirstChild(_, _, _, _, _)
siftDownFirstChild(array, dep, root, e, cmp) ==
    IF root * 2 <= e
    THEN LET child == root * 2
         IN  IF Compare(cmp, dep, Rd(array, root), Rd(array, child)) < 0
             THEN siftDownFirstChild(SwapEntries(array, root, child), dep,
                                     child, e, cmp)
             ELSE array
    ELSE array

\* siftDown(s, e, compare) on the array order
RECURSIVE siftDown(_, _, _, _, _)
siftDown(array, dep, root, e, cmp) ==
    IF root * 2 <= e
    THEN LET first == root * 2
             child == IF first < e
                         /\ Compare(cmp, dep, Rd(array, first),
                                    Rd(array, first + 1)) < 0
                      THEN first + 1
                      ELSE first
         IN  IF Compare(cmp, dep, Rd(array, root), Rd(array, child)) < 0
             THEN siftDown(SwapEntries(array, root, child), dep, child, e, cmp)
             ELSE array
    ELSE array

RECURSIVE heapifyFrom(_, _, _, _, _)
heapifyFrom(array, dep, s, c, cmp) ==
    IF s >= 0
    THEN heapifyFrom(siftDown(array, dep, s, c - 1, cmp), dep, s - 1, c, cmp)
    ELSE array

\* heapify: s = c >> 1; while (s >= 0) siftDown(s--, c - 1, compare)
heapify(array, dep, c, cmp) == heapifyFrom(array, dep, c \div 2, c, cmp)

RECURSIVE popToEnd(_, _, _, _)
popToEnd(array, dep, e, cmp) ==
    IF e > 0
    THEN popToEnd(siftDown(SwapEntries(array, 0, e), dep, 0, e - 1, cmp),
                  dep, e - 1, cmp)
    ELSE array

\* a sort of the first c + 1 entries
sortOneMore(array, dep, c, cmp) ==
    popToEnd(heapify(array, dep, c + 1, cmp), dep, c, cmp)

\* sort: heapify, then swap the root to the end and sift down, repeatedly
sort(array, dep, c, cmp) == popToEnd(heapify(array, dep, c, cmp), dep, c - 1, cmp)

(* --------------------------- QuadBatch --------------------------------- *)
\* new Uint16Array(n), new Float32Array(n): n zeroes; new Array(n): n holes
Zeroes(n) == [k \in 0..(n - 1) |-> 0]
Holes(n) == [k \in 0..(n - 1) |-> Undefined]

\* a Float32Array of which only the elements written since its allocation
\* are kept; the others hold 0.0. array[i] = v is ignored outside the array
Wr32(array, len, i, v) ==
    IF i < len
    THEN [k \in DOMAIN array \cup {i} |-> IF k = i THEN store32(v) ELSE array[k]]
    ELSE array

Rd32(array, i) == IF i \in DOMAIN array THEN array[i] ELSE Num(0)

\* the geometry arrays resize allocates
NoRects ==
    [sourceRects |-> <<>>, targetRects |-> <<>>, originPoint |-> <<>>,
     scaleFactor |-> <<>>, orientation |-> <<>>]

\* the quotient 1.0 / n of a positive integer n as the Float32Array
\* element it is stored into
Reciprocal32(n) == fround(1, n)

\* the writes of add into the geometry arrays for the quad at index bi of a
\* batch of capacity cap; q holds add's arguments
addRects(r, cap, bi, q) ==
    LET i4 == bi * 4
        i2 == bi * 2
        i1 == bi
        S(a, i, v) == Wr32(a, cap * 4, i, Num(v))
        P(a, i, v) == Wr32(a, cap * 2, i, Num(v))
    IN  [sourceRects |->
             S(S(S(S(r.sourceRects, i4, q.sourceX), i4 + 1, q.sourceY),
                 i4 + 2, q.sourceWidth), i4 + 3, q.sourceHeight),
         targetRects |->
             S(S(S(S(r.targetRects, i4, q.x), i4 + 1, q.y),
                 i4 + 2, q.sourceWidth * q.scaleX),
               i4 + 3, q.sourceHeight * q.scaleY),
         originPoint |->
             P(P(r.originPoint, i2, q.originX), i2 + 1, q.originY),
         scaleFactor |->
             IF i2 < cap * 2
             THEN [k \in DOMAIN r.scaleFactor \cup {i2, i2 + 1} |->
                      IF k = i2 THEN Reciprocal32(q.imageWidth)
                      ELSE IF k = i2 + 1 THEN Reciprocal32(q.imageHeight)
                      ELSE r.scaleFactor[k]]
             ELSE r.scaleFactor,
         orientation |-> Wr32(r.orientation, cap, i1, Num(q.orientation))]

\* the arguments of add the callers of Add leave alone: the unit square of
\* a one by one image at the origin, not rotated and not scaled
UnitQuad ==
    [x |-> 0, y |-> 0, originX |-> 0, originY |-> 0, scaleX |-> 1,
     scaleY |-> 1, orientation |-> 0, sourceX |-> 0, sourceY |-> 0,
     sourceWidth |-> 1, sourceHeight |-> 1, imageWidth |-> 1,
     imageHeight |-> 1]

\* QuadBatch.MAX_CAPACITY, the maximum capacity of a quad batch
MAX_CAPACITY == 65536

\* QuadBatch.MAX_CAPCITY, the property resize compares with: never assigned
MAX_CAPCITY == Undefined

\* the capacity resize allocates for a requested capacity
resizeCapacity(capacity) ==
    IF Gt(capacity, MAX_CAPCITY) THEN MAX_CAPCITY ELSE capacity

\* a resize that allocates fresh storage and keeps the count of quads
ResizeKeepCount(capacity) ==
    /\ pc = "idle"
    /\ quadCapacity' = resizeCapacity(capacity)
    /\ order' = Zeroes(quadCapacity')
    /\ depth' = Zeroes(quadCapacity')
    /\ state' = Holes(quadCapacity')
    /\ rects' = NoRects
    /\ UNCHANGED <<quadCount, ringVars, currentState, appliedState, drawVars,
                   glVars, lastBuffer>>

\* resize(capacity): fresh storage, no quads
Resize(capacity) ==
    /\ pc = "idle"
    /\ quadCapacity' = resizeCapacity(capacity)
    /\ order' = Zeroes(quadCapacity')
    /\ depth' = Zeroes(quadCapacity')
    /\ state' = Holes(quadCapacity')
    /\ rects' = NoRects
    /\ quadCount' = 0
    /\ UNCHANGED <<ringVars, currentState, appliedState, drawVars, glVars,
                   lastBuffer>>

\* an add that relies on order still being the identity
AddKeepOrder(st, d) ==
    /\ pc = "idle"
    /\ LET bi == quadCount
       IN  /\ depth' = WrF32(depth, bi, d)
           /\ state' = WrArr(state, bi, st)
           /\ rects' = addRects(rects, quadCapacity, bi, UnitQuad)
           /\ quadCount' = bi + 1
    /\ UNCHANGED <<quadCapacity, order, ringVars, currentState, appliedState,
                   drawVars, glVars, lastBuffer>>

\* an add that counts the quad before it writes it
AddAfterIncrement(st, d) ==
    /\ pc = "idle"
    /\ LET bi == quadCount + 1
       IN  /\ depth' = WrF32(depth, bi, d)
           /\ state' = WrArr(state, bi, st)
           /\ order' = WrU16(order, bi, bi)
           /\ rects' = addRects(rects, quadCapacity, bi, UnitQuad)
           /\ quadCount' = bi
    /\ UNCHANGED <<quadCapacity, ringVars, currentState, appliedState, drawVars,
                   glVars, lastBuffer>>

\* the value add returns: bi, the count of quads when it was called
addReturns == quadCount

\* add(state, x, y, depth, originX, ..., imageHeight): no bounds check
\* before the writes; q holds the arguments but state, depth and color
AddQuad(st, d, q) ==
    /\ pc = "idle"
    /\ LET bi == quadCount
       IN  /\ rects' = addRects(rects, quadCapacity, bi, q)
           /\ depth' = WrF32(depth, bi, d)
           /\ state' = WrArr(state, bi, st)
           /\ order' = WrU16(order, bi, bi)
           /\ quadCount' = bi + 1
    /\ UNCHANGED <<quadCapacity, ringVars, currentState, appliedState, drawVars,
                   glVars, lastBuffer>>

\* add of the unit quad
Add(st, d) == AddQuad(st, d, UnitQuad)

\* a flush that also allocates fresh storage
FlushFresh ==
    /\ pc = "idle"
    /\ quadCount' = 0
    /\ order' = Zeroes(quadCapacity)
    /\ depth' = Zeroes(quadCapacity)
    /\ state' = Holes(quadCapacity)
    /\ rects' = NoRects
    /\ UNCHANGED <<quadCapacity, ringVars, currentState, appliedState, drawVars,
                   glVars, lastBuffer>>

\* flush()
Flush ==
    /\ pc = "idle"
    /\ quadCount' = 0
    /\ UNCHANGED <<quadCapacity, order, depth, state, rects, ringVars,
                   currentState, appliedState, drawVars, glVars, lastBuffer>>

Sort(cmp) ==
    /\ pc = "idle"
    /\ order' = sort(order, depth, quadCount, cmp)
    /\ UNCHANGED <<quadCapacity, quadCount, depth, state, rects, ringVars,
                   currentState, appliedState, drawVars, glVars, lastBuffer>>

(* --------------------------- QuadEffect -------------------------------- *)
\* bytes of one vertex record of the layout QuadVertex.PTCG
VertexSize == 32
\* bytes of one index, Uint16Array.BYTES_PER_ELEMENT
IndexSize == 2
\* the vertex numbers generateIndices writes for one quad, in order
QuadIndices == <<1, 0, 2, 2, 0, 3>>

\* a generator that reads the quads by insertion index, not through order
ptcgUnsorted(bufferOffset, batchOffset, qn) ==
    [v \in bufferOffset..(bufferOffset + 4 * qn - 1) |->
        [quad   |-> batchOffset + ((v - bufferOffset) \div 4),
         corner |-> (v - bufferOffset) % 4]]

\* QuadVertex.ptcg(view, bufferOffset, batch, batchOffset, quadCount): the
\* vertex slots written; each holds a corner of the quad read through order
ptcg(bufferOffset, batchOffset, qn) ==
    [v \in bufferOffset..(bufferOffset + 4 * qn - 1) |->
        [quad   |-> Rd(order, batchOffset + ((v - bufferOffset) \div 4)),
         corner |-> (v - bufferOffset) % 4]]

\* QuadVertex.XCornerOffsets and YCornerOffsets
XCornerOffsets == <<0, 1, 1, 0>>
YCornerOffsets == <<0, 0, 1, 1>>

\* a / b on doubles: exact for the divisors of the model, powers of two
Quot(a, b) == Float(a.num * b.den, a.den * b.num)

\* Math.sin and Math.cos of the orientations of the model, all 0
Sin(a) == Num(0)
Cos(a) == Num(1)

\* the position and texture coordinates ptcg writes for corner j of the
\* quad with insertion index ai1, with the width and height of the quad
\* taken from the source rectangle instead of the target rectangle
ptcgCornerUnscaled(ai1, j) ==
    LET ai2 == ai1 * 2
        ai4 == ai1 * 4
        sx  == Rd32(rects.sourceRects, ai4)
        sy  == Rd32(rects.sourceRects, ai4 + 1)
        sw  == Rd32(rects.sourceRects, ai4 + 2)
        sh  == Rd32(rects.sourceRects, ai4 + 3)
        dx  == Rd32(rects.targetRects, ai4)
        dy  == Rd32(rects.targetRects, ai4 + 1)
        xc  == Quot(Rd32(rects.originPoint, ai2), sw)
        yc  == Quot(Rd32(rects.originPoint, ai2 + 1), sh)
        su  == Rd32(rects.scaleFactor, ai2)
        sv  == Rd32(rects.scaleFactor, ai2 + 1)
        st  == Sin(Rd32(rects.orientation, ai1))
        ct  == Cos(Rd32(rects.orientation, ai1))
        xo  == Num(XCornerOffsets[j + 1])
        yo  == Num(YCornerOffsets[j + 1])
        xd  == Times(Minus(xo, xc), sw)
        yd  == Times(Minus(yo, yc), sh)
    IN  [x |-> store32(Minus(Plus(dx, Times(xd, ct)), Times(yd, st))),
         y |-> store32(Plus(Plus(dy, Times(xd, st)), Times(yd, ct))),
         u |-> store32(Times(Plus(sx, Times(xo, sw)), su)),
         v |-> store32(Times(Plus(sy, Times(yo, sh)), sv))]

\* the position and texture coordinates ptcg writes for corner j (0 to 3)
\* of the quad with insertion index ai1: the body of its inner loop
ptcgCorner(ai1, j) ==
    LET ai2 == ai1 * 2
        ai4 == ai1 * 4
        sx  == Rd32(rects.sourceRects, ai4)
        sy  == Rd32(rects.sourceRects, ai4 + 1)
        sw  == Rd32(rects.sourceRects, ai4 + 2)
        sh  == Rd32(rects.sourceRects, ai4 + 3)
        dx  == Rd32(rects.targetRects, ai4)
        dy  == Rd32(rects.targetRects, ai4 + 1)
        dw  == Rd32(rects.targetRects, ai4 + 2)
        dh  == Rd32(rects.targetRects, ai4 + 3)
        xc  == Quot(Rd32(rects.originPoint, ai2), sw)
        yc  == Quot(Rd32(rects.originPoint, ai2 + 1), sh)
        su  == Rd32(rects.scaleFactor, ai2)
        sv  == Rd32(rects.scaleFactor, ai2 + 1)
        st  == Sin(Rd32(rects.orientation, ai1))
        ct  == Cos(Rd32(rects.orientation, ai1))
        xo  == Num(XCornerOffsets[j + 1])
        yo  == Num(YCornerOffsets[j + 1])
        xd  == Times(Minus(xo, xc), dw)
        yd  == Times(Minus(yo, yc), dh)
    IN  [x |-> store32(Minus(Plus(dx, Times(xd, ct)), Times(yd, st))),
         y |-> store32(Plus(Plus(dy, Times(xd, st)), Times(yd, ct))),
         u |-> store32(Times(Plus(sx, Times(xo, sw)), su)),
         v |-> store32(Times(Plus(sy, Times(yo, sh)), sv))]

\* index generation that numbers the vertices from 0 in every pass
generateIndicesFromZero(bufferOffset, baseVertex, qn) ==
    [s \in bufferOffset..(bufferOffset + 6 * qn - 1) |->
        ToUint16(4 * ((s - bufferOffset) \div 6)
                 + QuadIndices[((s - bufferOffset) % 6) + 1])]

\* generateIndices(buffer, bufferOffset, baseVertex, quadCount): the index
\* slots written and the 16-bit value each holds
generateIndices(bufferOffset, baseVertex, qn) ==
    [s \in bufferOffset..(bufferOffset + 6 * qn - 1) |->
        ToUint16(baseVertex + 4 * ((s - bufferOffset) \div 6)
                 + QuadIndices[((s - bufferOffset) % 6) + 1])]

\* a clamp that takes the vertex count from the index buffer's free space
clampedQuadsFromIndices(count) ==
    LET numVertices == IF vertexCapacity < vertexOffset + count * 4
                       THEN indexCapacity - indexOffset
                       ELSE count * 4
    IN  numVertices \div 4

\* a clamp that buffers nothing when the whole request does not fit
clampedQuadsAllOrNone(count) ==
    IF vertexCapacity < vertexOffset + count * 4 THEN 0 ELSE count

\* the number of quads bufferData buffers for a request of count quads:
\* numVertices / 4 after the clamp to the space left in the ring
clampedQuads(count) ==
    LET numVertices == IF vertexCapacity < vertexOffset + count * 4
                       THEN vertexCapacity - vertexOffset
                       ELSE count * 4
    IN  numVertices \div 4

\* a cursor that is advanced and never wrapped
advanceNoWrap(cursor, amount, full) == cursor + amount

\* a cursor that goes back to 0 when it reaches the vertex capacity itself
advanceToVertexCapacity(cursor, amount, full) ==
    IF cursor + amount = vertexCapacity THEN 0 ELSE cursor + amount

\* a ring cursor after amount slots were written: back to 0 when the vertex
\* ring is then exactly full
advance(cursor, amount, full) == IF full THEN 0 ELSE cursor + amount

\* a bufferData that uploads both staging buffers whole
bufferDataWholeBuffers(offset, count) ==
    LET baseIndex  == indexOffset
        baseVertex == vertexOffset
        qn         == clampedQuads(count)
        full       == vertexCapacity = baseVertex + qn * 4
    IN  IF qn = 0
        THEN [n |-> 0, baseVertex |-> baseVertex, baseIndex |-> baseIndex,
              gen |-> <<>>, vertexData |-> <<>>, indexData |-> <<>>,
              uploads |-> <<>>,
              vertexOffset |-> vertexOffset, indexOffset |-> indexOffset]
        ELSE [n |-> qn, baseVertex |-> baseVertex, baseIndex |-> baseIndex,
              gen |-> <<[bufferOffset |-> baseVertex, batchOffset |-> offset,
                         quadCount |-> qn]>>,
              vertexData |-> ptcg(baseVertex, offset, qn),
              indexData |-> generateIndices(baseIndex, baseVertex, qn),
              uploads |-> <<[target |-> "ARRAY_BUFFER",
                             byteOffset |-> 0,
                             byteLength |-> vertexCapacity * VertexSize],
                            [target |-> "ELEMENT_ARRAY_BUFFER",
                             byteOffset |-> 0,
                             byteLength |-> indexCapacity * IndexSize]>>,
              vertexOffset |-> advance(baseVertex, qn * 4, full),
              indexOffset |-> advance(baseIndex, qn * 6, full)]

\* bufferData(batch, offset, count, generateVertices): what it returns (n),
\* the generator call, the staging writes, the uploads and the new cursors
bufferData(offset, count) ==
    LET baseIndex  == indexOffset
        baseVertex == vertexOffset
        qn         == clampedQuads(count)
        full       == vertexCapacity = baseVertex + qn * 4
    IN  IF qn = 0
        THEN [n |-> 0, baseVertex |-> baseVertex, baseIndex |-> baseIndex,
              gen |-> <<>>, vertexData |-> <<>>, indexData |-> <<>>,
              uploads |-> <<>>,
              vertexOffset |-> vertexOffset, indexOffset |-> indexOffset]
        ELSE [n |-> qn, baseVertex |-> baseVertex, baseIndex |-> baseIndex,
              gen |-> <<[bufferOffset |-> baseVertex, batchOffset |-> offset,
                         quadCount |-> qn]>>,
              vertexData |-> ptcg(baseVertex, offset, qn),
              indexData |-> generateIndices(baseIndex, baseVertex, qn),
              uploads |-> <<[target |-> "ARRAY_BUFFER",
                             byteOffset |-> baseVertex * VertexSize,
                             byteLength |-> qn * VertexSize * 4],
                            [target |-> "ELEMENT_ARRAY_BUFFER",
                             byteOffset |-> baseIndex * IndexSize,
                             byteLength |-> qn * 6 * IndexSize]>>,
              vertexOffset |-> advance(baseVertex, qn * 4, full),
              indexOffset |-> advance(baseIndex, qn * 6, full)]

\* the calls drawRegion makes: applyState(effect, gl, shader, s) and
\* gl.drawIndexed(count, startIndex); a draw records the state applied then
ApplyOp(s) == [op |-> "apply", count |-> 0, startIndex |-> 0, state |-> s]

\* a draw that starts at the first index of the buffer
DrawOpAtZero(nindex, baseIndex, applied) ==
    [op |-> "draw", count |-> nindex, startIndex |-> 0, state |-> applied]

DrawOp(nindex, baseIndex, applied) ==
    [op |-> "draw", count |-> nindex, startIndex |-> baseIndex,
     state |-> applied]

\* the quad whose state token drawRegion reads in iteration i of its loop:
\* quadId = order[i], whatever the offset of the region
regionQuad(offset, i) == Rd(order, i)

\* a test that takes every quad for a change of state
stateChangedAlways(state1, state0) == TRUE

\* the test state1 !== state0 that ends a run of quads
stateChanged(state1, state0) == state1 # state0

\* the for loop of drawRegion from iteration i on, and the final submission
RECURSIVE drawRegionFrom(_, _, _, _, _, _, _, _, _)
drawRegionFrom(offset, i, count, state0, state1, index, baseIndex, applied, ops) ==
    IF i < count
    THEN LET quadId == regionQuad(offset, i)
             s1     == Rd(state, quadId)
         IN  IF stateChanged(s1, state0)
             THEN LET nindex == (i - index) * 6
                      ops1   == IF i > index
                                THEN Append(ops, DrawOp(nindex, baseIndex,
                                                        applied))
                                ELSE ops
                      base1  == IF i > index THEN baseIndex + nindex
                                ELSE baseIndex
                  IN  drawRegionFrom(offset, i + 1, count, s1, s1, i, base1,
                                     s1, Append(ops1, ApplyOp(s1)))
             ELSE drawRegionFrom(offset, i + 1, count, state0, s1, index,
                                 baseIndex, applied, ops)
    ELSE [ops |-> Append(ops, DrawOp((count - index) * 6, baseIndex,
                                     applied)),
          currentState |-> state1,
          appliedState |-> applied]

\* drawRegion(batch, offset, count, baseIndex, applyState)
drawRegion(offset, count, baseIndex) ==
    drawRegionFrom(offset, 0, count, currentState, currentState, 0, baseIndex,
                   appliedState, <<>>)

\* most iterations a drawBatch call is followed for
MaxPasses == MaxCap + 1

\* a loop test that also runs the loop body with no quads left
quadsLeftOrNone(n) == n >= 0

\* the loop test of drawBatch, quadCount > 0
quadsLeft(n) == n > 0

\* BuildStage, the stage an error report names
COMPILE_VS == 0
COMPILE_FS == 1
LINK_PROGRAM == 2

\* the WebGLProgram handle gl.createProgram() returns
Program == 1

\* this.emit(event, this, stage, source, log) of createProgramResource
BuildError(event, stage, source) ==
    [event |-> event, stage |-> stage, source |-> source, log |-> "log"]

\* GLContext.createProgramResource(proxy, vss, fss) on a context that is not
\* lost, for the outcomes of compiling the two shaders and of linking: the
\* proxy's programResource afterwards, the errors emitted and the result
createProgramResource(vsOk, fsOk, linkOk) ==
    IF ~vsOk
    THEN [programResource |-> programResource,
          emitted |-> <<BuildError("compile:error", COMPILE_VS, "vss")>>,
          result |-> FALSE]
    ELSE IF ~fsOk
    THEN [programResource |-> programResource,
          emitted |-> <<BuildError("compile:error", COMPILE_FS, "fss")>>,
          result |-> FALSE]
    ELSE IF ~linkOk
    THEN [programResource |-> programResource,
          emitted |-> <<BuildError("linker:error", LINK_PROGRAM,
                                   "vss\n\nfss")>>,
          result |-> FALSE]
    ELSE [programResource |-> Program, emitted |-> <<>>, result |-> TRUE]

\* a createResources that leaves the ring cursors where they are
CreateResourcesKeepCursors(capacity, vsOk, fsOk, linkOk) ==
    /\ pc = "idle"
    /\ LET built == createProgramResource(vsOk, fsOk, linkOk)
       IN  /\ programResource' = built.programResource
           /\ reported' = reported \o built.emitted
    /\ hasResources' = TRUE
    /\ vertexCapacity' = capacity * 4
    /\ indexCapacity' = capacity * 6
    /\ UNCHANGED <<batchVars, vertexOffset, indexOffset, currentState,
                   appliedState, drawVars, projection, contextVars,
                   lastBuffer>>

\* createResources(vss, fss, attributes, capacity): the result of
\* createProgramResource is not looked at
CreateResources(capacity, vsOk, fsOk, linkOk) ==
    /\ pc = "idle"
    /\ LET built == createProgramResource(vsOk, fsOk, linkOk)
       IN  /\ programResource' = built.programResource
           /\ reported' = reported \o built.emitted
    /\ hasResources' = TRUE
    /\ vertexCapacity' = capacity * 4
    /\ indexCapacity' = capacity * 6
    /\ vertexOffset' = 0
    /\ indexOffset' = 0
    /\ UNCHANGED <<batchVars, currentState, appliedState, drawVars, projection,
                   contextVars, lastBuffer>>

\* deleteResources()
DeleteResources ==
    /\ pc = "idle"
    /\ programResource' = Null
    /\ hasResources' = FALSE
    /\ vertexCapacity' = 0
    /\ vertexOffset' = 0
    /\ indexCapacity' = 0
    /\ indexOffset' = 0
    /\ UNCHANGED <<batchVars, currentState, appliedState, drawVars, reported,
                   projection, contextVars, lastBuffer>>

\* bufferData(batch, offset, count, generateVertices) called by a caller of
\* the effect (without resources the read of this.indexData.buffer throws
\* before anything is changed)
BufferDataCall(offset, count) ==
    /\ pc = "idle"
    /\ hasResources
    /\ LET bd == bufferData(offset, count)
       IN  /\ vertexOffset' = bd.vertexOffset
           /\ indexOffset' = bd.indexOffset
           /\ lastBuffer' = [offset |-> offset, request |-> count, n |-> bd.n,
                             baseVertex |-> bd.baseVertex,
                             baseIndex |-> bd.baseIndex, gen |-> bd.gen,
                             uploads |-> bd.uploads,
                             vertexOffset |-> bd.vertexOffset,
                             indexOffset |-> bd.indexOffset]
    /\ UNCHANGED <<batchVars, hasResources, vertexCapacity, indexCapacity,
                   currentState, appliedState, drawVars, glVars>>

\* applyViewport(width, height): sX = 1 / (width * 0.5) is 2 / width, and
\* likewise sY; the matrix is stored column by column
applyViewportNoFlip(width, height) ==
    LET sX == fround(2, width)
        sY == fround(2, height)
        O == Float(0, 1)
        I == Float(1, 1)
    IN  [k \in 0..15 |->
            CASE k = 0 -> sX
              [] k = 5 -> sY
              [] k = 10 -> I
              [] k = 12 -> Neg(I)
              [] k = 13 -> I
              [] k = 15 -> I
              [] OTHER -> O]

applyViewport(width, height) ==
    LET sX == fround(2, width)
        sY == fround(2, height)
        O == Float(0, 1)
        I == Float(1, 1)
    IN  [k \in 0..15 |->
            CASE k = 0 -> sX
              [] k = 5 -> Neg(sY)
              [] k = 10 -> I
              [] k = 12 -> Neg(I)
              [] k = 13 -> I
              [] k = 15 -> I
              [] OTHER -> O]

ApplyViewport(width, height) ==
    /\ pc = "idle"
    /\ projection' = applyViewport(width, height)
    /\ UNCHANGED <<batchVars, ringVars, currentState, appliedState, drawVars,
                   programResource, reported, contextVars, lastBuffer>>

\* makeCurrent(setupProgram)
MakeCurrent ==
    /\ pc = "idle"
    /\ currentState' = Null
    /\ UNCHANGED <<batchVars, ringVars, appliedState, drawVars, glVars,
                   lastBuffer>>

\* drawBatch(batch, generateVertices, applyState): entry, up to the loop test
DrawBatchCall ==
    /\ pc = "idle"
    /\ pc' = "loop"
    /\ dbBaseIndex' = indexOffset
    /\ dbQuadCount' = quadCount
    /\ dbQuadIndex' = 0
    /\ passes' = <<>>
    /\ entry' = <<vertexOffset, indexOffset, currentState, appliedState>>
    /\ UNCHANGED <<batchVars, ringVars, currentState, appliedState, glVars,
                   lastBuffer>>

\* one iteration of the while loop: bufferData, then drawRegion
DrawBatchPass ==
    /\ pc = "loop"
    /\ quadsLeft(dbQuadCount)
    /\ hasResources
    /\ Len(passes) < MaxPasses
    /\ LET bd == bufferData(dbQuadIndex, dbQuadCount)
           dr == drawRegion(dbQuadIndex, bd.n, dbBaseIndex)
       IN  /\ vertexOffset' = bd.vertexOffset
           /\ indexOffset' = bd.indexOffset
           /\ currentState' = dr.currentState
           /\ appliedState' = dr.appliedState
           /\ dbBaseIndex' = bd.indexOffset
           /\ dbQuadIndex' = dbQuadIndex + bd.n
           /\ dbQuadCount' = dbQuadCount - bd.n
           /\ passes' = Append(passes,
                  [offset |-> dbQuadIndex, request |-> dbQuadCount,
                   n |-> bd.n, baseVertex |-> bd.baseVertex,
                   baseIndex |-> bd.baseIndex, gen |-> bd.gen,
                   vertexData |-> bd.vertexData, indexData |-> bd.indexData,
                   uploads |-> bd.uploads, drawBase |-> dbBaseIndex,
                   ops |-> dr.ops])
    /\ UNCHANGED <<batchVars, hasResources, vertexCapacity, indexCapacity, pc,
                   entry, glVars, lastBuffer>>

\* bufferData reads this.indexData.buffer: a TypeError while indexData is
\* null, which ends drawBatch
DrawBatchThrow ==
    /\ pc = "loop"
    /\ quadsLeft(dbQuadCount)
    /\ ~hasResources
    /\ pc' = "idle"
    /\ dbBaseIndex' = 0
    /\ dbQuadCount' = 0
    /\ dbQuadIndex' = 0
    /\ passes' = <<>>
    /\ entry' = <<>>
    /\ UNCHANGED <<batchVars, ringVars, currentState, appliedState, glVars,
                   lastBuffer>>

\* a drawBatch that empties the batch when it returns
DrawBatchReturnFlushing ==
    /\ pc = "loop"
    /\ ~quadsLeft(dbQuadCount)
    /\ pc' = "idle"
    /\ quadCount' = 0
    /\ dbBaseIndex' = 0
    /\ dbQuadCount' = 0
    /\ dbQuadIndex' = 0
    /\ passes' = <<>>
    /\ entry' = <<>>
    /\ UNCHANGED <<quadCapacity, order, depth, state, rects, ringVars,
                   currentState, appliedState, glVars, lastBuffer>>

\* the loop test fails: drawBatch returns
DrawBatchReturn ==
    /\ pc = "loop"
    /\ ~quadsLeft(dbQuadCount)
    /\ pc' = "idle"
    /\ dbBaseIndex' = 0
    /\ dbQuadCount' = 0
    /\ dbQuadIndex' = 0
    /\ passes' = <<>>
    /\ entry' = <<>>
    /\ UNCHANGED <<batchVars, ringVars, currentState, appliedState, glVars,
                   lastBuffer>>

(* ------------------------------ Emitter -------------------------------- *)
\* the events a GLContext emits to its listeners
Events == {"context:lost", "context:restored"}

\* the functions callers register
Callbacks == {1, 2}

\* a registered function: a caller's callback itself (wrapper = 0), or the
\* function func that a call of once() creates around it (wrapper > 0)
Listener(callback, wrapper) == [callback |-> callback, wrapper |-> wrapper]

\* no emit call was made yet
NoEmit == [event |-> "", calls |-> <<>>, threw |-> FALSE]

\* Array.prototype.indexOf, as a position from 1; 0 when absent (-1 in JS)
RECURSIVE indexFrom(_, _, _)
indexFrom(handler, f, i) ==
    IF i > Len(handler) THEN 0
    ELSE IF handler[i] = f THEN i
    ELSE indexFrom(handler, f, i + 1)

indexOf(handler, f) == indexFrom(handler, f, 1)

\* handler.splice(start, 1) with start counted from 0; a negative start
\* counts from the end of the array
splice(handler, start) ==
    LET from == IF start < 0
                THEN (IF Len(handler) + start < 0 THEN 0
                      ELSE Len(handler) + start)
                ELSE start
    IN  IF from >= Len(handler) THEN handler
        ELSE SubSeq(handler, 1, from) \o SubSeq(handler, from + 2, Len(handler))

\* removeListener(event, callback) on the array of one event
removeListener(handler, f) == splice(handler, indexOf(handler, f) - 1)

\* the loop of emit over the array listener, whose length n was read before
\* the loop: listener[i] is called; a function created by once() first
\* removes itself from the same array, then calls its callback; calling the
\* undefined listener[i] past the end of the array throws a TypeError
RECURSIVE emitLoop(_, _, _, _)
emitLoop(listener, i, n, calls) ==
    IF i >= n
    THEN [listener |-> listener, calls |-> calls, threw |-> FALSE]
    ELSE IF i >= Len(listener)
    THEN [listener |-> listener, calls |-> calls, threw |-> TRUE]
    ELSE LET f == listener[i + 1]
         IN  emitLoop(IF f.wrapper # 0 THEN removeListener(listener, f)
                      ELSE listener,
                      i + 1, n, Append(calls, f))

\* on(event, callback)
On(event, callback) ==
    /\ listeners' = [listeners EXCEPT
                        ![event] = Append(@, Listener(callback, 0))]
    /\ UNCHANGED <<batchVars, ringVars, currentState, appliedState, drawVars,
                   programResource, reported, projection, wrappers, lastEmit,
                   attributes, elementSize, lastBuffer, bindVars>>

\* once(event, callback)
Once(event, callback) ==
    /\ wrappers' = wrappers + 1
    /\ listeners' = [listeners EXCEPT
                        ![event] = Append(@, Listener(callback, wrappers + 1))]
    /\ UNCHANGED <<batchVars, ringVars, currentState, appliedState, drawVars,
                   programResource, reported, projection, lastEmit,
                   attributes, elementSize, lastBuffer, bindVars>>

\* removeListener(event, callback), called by a caller with its callback
RemoveListener(event, callback) ==
    /\ listeners' = [listeners EXCEPT
                        ![event] = removeListener(@, Listener(callback, 0))]
    /\ UNCHANGED <<batchVars, ringVars, currentState, appliedState, drawVars,
                   programResource, reported, projection, wrappers, lastEmit,
                   attributes, elementSize, lastBuffer, bindVars>>

\* removeAllListeners(event)
RemoveAllListeners(event) ==
    /\ listeners' = [listeners EXCEPT ![event] = <<>>]
    /\ UNCHANGED <<batchVars, ringVars, currentState, appliedState, drawVars,
                   programResource, reported, projection, wrappers, lastEmit,
                   attributes, elementSize, lastBuffer, bindVars>>

\* emit(event, ...)
Emit(event) ==
    /\ LET done == emitLoop(listeners[event], 0, Len(listeners[event]), <<>>)
       IN  /\ listeners' = [listeners EXCEPT ![event] = done.listener]
           /\ lastEmit' = [event |-> event, calls |-> done.calls,
                           threw |-> done.threw]
    /\ UNCHANGED <<batchVars, ringVars, currentState, appliedState, drawVars,
                   programResource, reported, projection, wrappers,
                   attributes, elementSize, lastBuffer, bindVars>>

(* ------------------------- vertex attributes --------------------------- *)
\* the data types of the attributes of the quad vertex
DataTypes == {"FLOAT", "UNSIGNED_BYTE"}

\* createAttribute(name, type, offset, dimension, normalize)
createAttribute(type, offset, dimension) ==
    [dataType |-> type, byteOffset |-> offset, dimension |-> dimension]

\* QuadVertex.PTCG
PTCG ==
    << createAttribute("FLOAT", 0, 4),
       createAttribute("UNSIGNED_BYTE", 16, 4),
       createAttribute("FLOAT", 20, 3) >>

\* computeAttributeSize(attribute)
computeAttributeSize(attribute) ==
    CASE attribute.dataType \in {"FLOAT", "INT", "UNSIGNED_INT"} ->
             4 * attribute.dimension
      [] attribute.dataType \in {"BYTE", "UNSIGNED_BYTE"} ->
             1 * attribute.dimension
      [] attribute.dataType \in {"SHORT", "UNSIGNED_SHORT"} ->
             2 * attribute.dimension
      [] OTHER -> 0

\* the sum of the byte offsets of the attributes 0 .. n - 1
RECURSIVE sumOffsets(_, _)
sumOffsets(attrs, n) ==
    IF n = 0 THEN 0 ELSE sumOffsets(attrs, n - 1) + attrs[n].byteOffset

\* computeBufferElementSize(attributes)
computeBufferElementSize(attrs) ==
    IF Len(attrs) = 0 THEN 0
    ELSE sumOffsets(attrs, Len(attrs) - 1)
             + computeAttributeSize(attrs[Len(attrs)])

\* a caller puts one more descriptor into its array of attributes
CreateAttribute(type, offset, dimension) ==
    /\ attributes' = Append(attributes, createAttribute(type, offset, dimension))
    /\ UNCHANGED <<batchVars, ringVars, currentState, appliedState, drawVars,
                   programResource, reported, projection, listeners, wrappers,
                   lastEmit, elementSize, lastBuffer, bindVars>>

\* a caller starts a new array of attributes
NewAttributes ==
    /\ attributes' = <<>>
    /\ UNCHANGED <<batchVars, ringVars, currentState, appliedState, drawVars,
                   programResource, reported, projection, listeners, wrappers,
                   lastEmit, elementSize, lastBuffer, bindVars>>

\* computeBufferElementSize(attributes) called with the caller's array
ComputeBufferElementSize ==
    /\ elementSize' = computeBufferElementSize(attributes)
    /\ UNCHANGED <<batchVars, ringVars, currentState, appliedState, drawVars,
                   programResource, reported, projection, listeners, wrappers,
                   lastEmit, attributes, lastBuffer, bindVars>>

(* --------------------------- buffer binding ---------------------------- *)
\* gl.ARRAY_BUFFER and gl.ELEMENT_ARRAY_BUFFER, and the bindTarget 0 of a
\* proxy that was given no resource yet
Targets == {"ARRAY_BUFFER", "ELEMENT_ARRAY_BUFFER"}
NoTarget == "0"

\* the buffer proxies the callers hold
MaxBuffers == 3
Proxies == 1..MaxBuffers

\* createBufferProxy()
createBufferProxy == [bindTarget |-> NoTarget, bufferResource |-> Null]

\* gl.bindBuffer(target, buffer) in the driver
bindBuffer(binding, target, buffer) == [binding EXCEPT ![target] = buffer]

\* gl.deleteBuffer(buffer) in the driver: a binding of the deleted buffer
\* goes back to null
deleteBuffer(binding, buffer) ==
    [target \in Targets |->
        IF buffer # Null /\ binding[target] = buffer THEN Null
        ELSE binding[target]]

\* createBufferResource(proxy, args): the new buffer is bound in the driver;
\* activeArrayBuffer and activeElementBuffer are not touched
CreateBufferResource(proxy, target) ==
    /\ handles' = handles + 1
    /\ buffers' = [buffers EXCEPT ![proxy] =
                      [bindTarget |-> target, bufferResource |-> handles + 1]]
    /\ bound' = bindBuffer(bound, target, handles + 1)
    /\ UNCHANGED <<batchVars, ringVars, currentState, appliedState, drawVars,
                   programResource, reported, projection, listeners, wrappers,
                   lastEmit, attributes, elementSize, activeBuffer,
                   lastBuffer>>

\* useBuffer(proxy): binds unless the proxy is the cached active buffer of
\* its target
UseBuffer(proxy) ==
    /\ LET target == buffers[proxy].bindTarget
       IN  IF target \in Targets /\ activeBuffer[target] # proxy
           THEN /\ bound' = bindBuffer(bound, target,
                                       buffers[proxy].bufferResource)
                /\ activeBuffer' = [activeBuffer EXCEPT ![target] = proxy]
           ELSE UNCHANGED <<bound, activeBuffer>>
    /\ UNCHANGED <<batchVars, ringVars, currentState, appliedState, drawVars,
                   programResource, reported, projection, listeners, wrappers,
                   lastEmit, attributes, elementSize, buffers, handles,
                   lastBuffer>>

\* unbindBuffer(target) on the pair of driver binding and cache
unbindBuffer(binding, active, target) ==
    IF target \in Targets /\ active[target] # Null
    THEN [bound |-> bindBuffer(binding, target, Null),
          activeBuffer |-> [active EXCEPT ![target] = Null]]
    ELSE [bound |-> binding, activeBuffer |-> active]

UnbindBuffer(target) ==
    /\ bound' = unbindBuffer(bound, activeBuffer, target).bound
    /\ activeBuffer' = unbindBuffer(bound, activeBuffer, target).activeBuffer
    /\ UNCHANGED <<batchVars, ringVars, currentState, appliedState, drawVars,
                   programResource, reported, projection, listeners, wrappers,
                   lastEmit, attributes, elementSize, buffers, handles,
                   lastBuffer>>

\* deleteBufferResource(proxy)
DeleteBufferResource(proxy) ==
    /\ LET isActive == \E target \in Targets : activeBuffer[target] = proxy
           unbound  == IF isActive
                       THEN unbindBuffer(bound, activeBuffer,
                                         buffers[proxy].bindTarget)
                       ELSE [bound |-> bound, activeBuffer |-> activeBuffer]
       IN  /\ bound' = deleteBuffer(unbound.bound,
                                    buffers[proxy].bufferResource)
           /\ activeBuffer' = unbound.activeBuffer
    /\ buffers' = [buffers EXCEPT ![proxy].bufferResource = Null]
    /\ UNCHANGED <<batchVars, ringVars, currentState, appliedState, drawVars,
                   programResource, reported, projection, listeners, wrappers,
                   lastEmit, attributes, elementSize, handles, lastBuffer>>

(* --------------------------- specification ----------------------------- *)
\* the two constructors: a batch with storage for the requested capacity and
\* no quads; an effect without resources
Init ==
    /\ quadCapacity \in 1..MaxCap
    /\ quadCount = 0
    /\ order = Zeroes(quadCapacity)
    /\ depth = Zeroes(quadCapacity)
    /\ state = Holes(quadCapacity)
    /\ rects = NoRects
    /\ hasResources = FALSE
    /\ vertexCapacity = 0
    /\ vertexOffset = 0
    /\ indexCapacity = 0
    /\ indexOffset = 0
    /\ currentState = Null
    /\ appliedState = Null
    /\ pc = "idle"
    /\ dbBaseIndex = 0
    /\ dbQuadCount = 0
    /\ dbQuadIndex = 0
    /\ passes = <<>>
    /\ entry = <<>>
    /\ programResource = Null
    /\ reported = <<>>
    /\ projection = [k \in 0..15 |-> Float(0, 1)]
    /\ listeners = [event \in Events |-> <<>>]
    /\ wrappers = 0
    /\ lastEmit = NoEmit
    /\ attributes = <<>>
    /\ elementSize = Undefined
    /\ buffers = [proxy \in Proxies |-> createBufferProxy]
    /\ activeBuffer = [target \in Targets |-> Null]
    /\ bound = [target \in Targets |-> Null]
    /\ handles = 0
    /\ lastBuffer = <<>>

Next ==
    \/ \E capacity \in 1..MaxCap : Resize(capacity)
    \/ \E st \in Tokens, d \in Depths : quadCount < quadCapacity /\ Add(st, d)
    \/ Flush
    \/ \E cmp \in Comparators : Sort(cmp)
    \/ \E capacity \in 0..MaxRing : CreateResources(capacity, TRUE, TRUE, TRUE)
    \/ MakeCurrent
    \/ DrawBatchCall
    \/ DrawBatchPass
    \/ DrawBatchThrow
    \/ DrawBatchReturn

Spec == Init /\ [][Next]_vars

\* the batch alone, its quads added with three different depths
SortDepths == {1, 2, 3}

NextBatch ==
    \/ \E capacity \in 1..MaxCap : Resize(capacity)
    \/ \E st \in Tokens, d \in SortDepths :
           quadCount < quadCapacity /\ Add(st, d)
    \/ Flush
    \/ \E cmp \in Comparators : Sort(cmp)

SpecBatch == Init /\ [][NextBatch]_vars

\* the batch with callers that also add to a full batch, up to MaxOver quads
\* beyond its capacity
MaxOver == 1

NextOverflow ==
    \/ \E capacity \in 1..MaxCap : Resize(capacity)
    \/ \E d \in Depths : quadCount < quadCapacity + MaxOver /\ Add(1, d)
    \/ Flush
    \/ \E cmp \in Comparators : Sort(cmp)

SpecOverflow == Init /\ [][NextOverflow]_vars

\* the batch resized to small capacities and to one beyond the maximum; a
\* batch that large gets its first quad only
ResizeRequests == (1..MaxCap) \cup {MAX_CAPACITY + 1}
MaxAdds == 1

NextResize ==
    \/ \E capacity \in ResizeRequests : Resize(capacity)
    \/ \E st \in Tokens, d \in Depths :
           /\ quadCount < quadCapacity
           /\ quadCapacity <= MaxCap \/ quadCount < MaxAdds
           /\ Add(st, d)
    \/ Flush

SpecResize == Init /\ [][NextResize]_vars

\* the effect created, deleted and created again with shaders that compile
\* and link or fail to, up to MaxReports errors, and drawing in between
MaxReports == 2

NextProgram ==
    \/ \E capacity \in 1..MaxRing, vsOk \in BOOLEAN, fsOk \in BOOLEAN,
          linkOk \in BOOLEAN :
           /\ Len(reported) < MaxReports
           /\ CreateResources(capacity, vsOk, fsOk, linkOk)
    \/ DeleteResources
    \/ quadCount < quadCapacity /\ Add(1, 1)
    \/ Flush
    \/ MakeCurrent
    \/ DrawBatchCall
    \/ DrawBatchPass
    \/ DrawBatchThrow
    \/ DrawBatchReturn

SpecProgram == Init /\ [][NextProgram]_vars

\* one quad with its geometry: the arguments of add but state, depth and
\* color, for quads that are not rotated
Quads ==
    [x : {3}, y : {1}, originX : {0, 1}, originY : {0, 1},
     scaleX : {1, 2}, scaleY : {1}, orientation : {0},
     sourceX : {1}, sourceY : {0}, sourceWidth : {1, 2},
     sourceHeight : {2}, imageWidth : {2, 3}, imageHeight : {4}]

NextGeometry ==
    \/ \E q \in Quads : quadCount = 0 /\ AddQuad(1, 1, q)
    \/ Flush
    \/ \E capacity \in 1..MaxRing : CreateResources(capacity, TRUE, TRUE, TRUE)
    \/ DrawBatchCall
    \/ DrawBatchPass
    \/ DrawBatchThrow
    \/ DrawBatchReturn

SpecGeometry == Init /\ [][NextGeometry]_vars

\* the projection alone: applyViewport called for viewports of up to
\* MaxDim by MaxDim pixels
MaxDim == 6

NextViewport ==
    \E width \in 1..MaxDim, height \in 1..MaxDim : ApplyViewport(width, height)

SpecViewport == Init /\ [][NextViewport]_vars

\* a ring of more quads than a 16-bit index can number the vertices of,
\* next to a ring of one quad: the caller buffers RingFill quads at once,
\* whatever the batch holds, and draws batches of one quad; on the wide ring
\* only with the cursor at its start or RingFill quads into it
WideRing == 16385
RingFill == WideRing - 1

NextWide ==
    \/ \E capacity \in {1, WideRing} :
           CreateResources(capacity, TRUE, TRUE, TRUE)
    \/ BufferDataCall(0, RingFill)
    \/ quadCount = 0 /\ Add(1, 1)
    \/ Flush
    \/ /\ vertexCapacity < 4 * WideRing \/ vertexOffset \in {0, 4 * RingFill}
       /\ DrawBatchCall
    \/ DrawBatchPass
    \/ DrawBatchThrow
    \/ DrawBatchReturn

SpecWide == Init /\ [][NextWide]_vars

\* the emitter alone: up to MaxListeners registrations, MaxWrappers of them
\* made by once()
MaxListeners == 3
MaxWrappers == 2

Registered == Len(listeners["context:lost"]) + Len(listeners["context:restored"])

NextEmitter ==
    \/ \E event \in Events, callback \in Callbacks :
           Registered < MaxListeners /\ On(event, callback)
    \/ \E event \in Events, callback \in Callbacks :
           /\ Registered < MaxListeners
           /\ wrappers < MaxWrappers
           /\ Once(event, callback)
    \/ \E event \in Events, callback \in Callbacks :
           RemoveListener(event, callback)
    \/ \E event \in Events : RemoveAllListeners(event)
    \/ \E event \in Events : Emit(event)

SpecEmitter == Init /\ [][NextEmitter]_vars

\* vertex layouts alone: arrays of up to MaxAttributes descriptors
MaxAttributes == 3
ByteOffsets == {0, 16, 20}
Dimensions == {3, 4}

NextLayout ==
    \/ \E type \in DataTypes, offset \in ByteOffsets, dimension \in Dimensions :
           Len(attributes) < MaxAttributes
               /\ CreateAttribute(type, offset, dimension)
    \/ NewAttributes
    \/ ComputeBufferElementSize

SpecLayout == Init /\ [][NextLayout]_vars

\* the buffers of a GLContext alone: MaxBuffers proxies, up to MaxHandles
\* calls of createBufferResource, a proxy always created for the same target
MaxHandles == 3

NextBuffers ==
    \/ \E proxy \in Proxies, target \in Targets :
           /\ handles < MaxHandles
           /\ buffers[proxy].bindTarget \in {NoTarget, target}
           /\ CreateBufferResource(proxy, target)
    \/ \E proxy \in Proxies : UseBuffer(proxy)
    \/ \E target \in Targets : UnbindBuffer(target)
    \/ \E proxy \in Proxies : DeleteBufferResource(proxy)

SpecBuffers == Init /\ [][NextBuffers]_vars

\* the ring alone: bufferData called by a caller and by drawBatch, for a batch
\* of quads that are all alike
BufferOffsets == 0..1
BufferCounts == 0..(MaxRing + 1)

NextRing ==
    \/ \E capacity \in 0..MaxRing : CreateResources(capacity, TRUE, TRUE, TRUE)
    \/ DeleteResources
    \/ \E offset \in BufferOffsets, count \in BufferCounts :
           BufferDataCall(offset, count)
    \/ quadCount < quadCapacity /\ Add(1, 1)
    \/ Flush
    \/ DrawBatchCall
    \/ DrawBatchPass
    \/ DrawBatchThrow
    \/ DrawBatchReturn

SpecRing == Init /\ [][NextRing]_vars

\* drawing after makeCurrent, for quads whose state token may be null
TokensOrNull == {Null, 1, 2}

NextTokens ==
    \/ \E st \in TokensOrNull : quadCount < quadCapacity /\ Add(st, 1)
    \/ Flush
    \/ \E capacity \in 0..MaxRing : CreateResources(capacity, TRUE, TRUE, TRUE)
    \/ MakeCurrent
    \/ DrawBatchCall
    \/ DrawBatchPass
    \/ DrawBatchThrow
    \/ DrawBatchReturn

SpecTokens == Init /\ [][NextTokens]_vars

(* ------------------------------ claims --------------------------------- *)
\* the positions of the batch in use, and the pairs of neighbouring positions
Positions == 0..(quadCount - 1)

\* C1: while callers never add to a full batch, order[0..count) holds every
\* insertion index 0..count-1 exactly once, after any adds, sorts and flushes
C1_OrderIsPermutation ==
    \A q \in Positions : Cardinality({i \in Positions : order[i] = q}) = 1

\* a third quad was added after a back-to-front sort had exchanged the first
\* two: no sort of these three depths leaves order as <<1, 0, 2>>
C1_AddAfterSort ==
    /\ quadCount = 3
    /\ order[0] = 1 /\ order[1] = 0 /\ order[2] = 2
    /\ depth[0] < depth[1] /\ depth[1] < depth[2]

\* the depths read through order never increase (back to front) or never
\* decrease (front to back)
DepthsOrdered(cmp) ==
    \A i \in 0..(quadCount - 2) :
        IF cmp = "backToFront"
        THEN depth[order[i]] >= depth[order[i + 1]]
        ELSE depth[order[i]] <= depth[order[i + 1]]

\* the batch holds three quads of depths 3, 1, 2, inserted in that order
Depths312 == quadCount = 3 /\ depth[0] = 3 /\ depth[1] = 1 /\ depth[2] = 2

\* order[0..2] is <<a, b, c>>
OrderIs(a, b, c) == order[0] = a /\ order[1] = b /\ order[2] = c

\* C2: after sort(backToFront) the depths read through order are
\* non-increasing, after sort(frontToBack) non-decreasing; depths 3, 1, 2
\* give order <<0, 2, 1>> back to front and <<1, 2, 0>> front to back
C2_SortOrdersByDepth ==
    [][\A cmp \in Comparators :
          Sort(cmp) =>
              /\ DepthsOrdered(cmp)'
              /\ Depths312 =>
                    IF cmp = "backToFront" THEN OrderIs(0, 2, 1)'
                    ELSE OrderIs(1, 2, 0)']_vars

\* depths 3, 1, 2 after a back-to-front sort (add leaves the identity)
C2_Sorted312 == Depths312 /\ OrderIs(0, 2, 1)

\* quads of equal depth stand in order by increasing insertion index
TiesInInsertionOrder ==
    \A i, j \in Positions :
        (i < j /\ depth[order[i]] = depth[order[j]]) => order[i] < order[j]

\* C3: after sort with either comparator, any two quads of equal depth appear
\* in order by increasing insertion index, whatever order held before
C3_SortKeepsInsertionOrderOfTies ==
    [][\A cmp \in Comparators : Sort(cmp) => TiesInInsertionOrder']_vars

\* a sorted batch in which the two quads added last share a depth and stand
\* before the quad added first
C3_SortedTies ==
    /\ quadCount = 3
    /\ depth[1] = depth[2] /\ depth[0] # depth[1]
    /\ OrderIs(1, 2, 0)

(* ------------------------ claims about drawBatch ----------------------- *)
\* drawBatch has left its loop and is about to return
Done == pc = "loop" /\ dbQuadCount <= 0

\* the ring cursor, in vertices, when the running drawBatch was called
EntryVertexOffset == entry[1]

\* the state token of the quad at sorted position p
TokenAt(p) == Rd(state, Rd(order, p))

\* how often the state token changes along order[0..count)
StateChanges ==
    Cardinality({p \in 1..(quadCount - 1) : TokenAt(p) # TokenAt(p - 1)})

\* every quad of the batch carries the same state token
UniformState == \A p, q \in Positions : TokenAt(p) = TokenAt(q)

\* the gl.drawIndexed calls among ops
DrawsOf(ops) == SelectSeq(ops, LAMBDA o : o.op = "draw")

\* the number of gl.drawIndexed calls of the first k iterations
RECURSIVE DrawCalls(_)
DrawCalls(k) ==
    IF k = 0 THEN 0 ELSE DrawCalls(k - 1) + Len(DrawsOf(passes[k].ops))

\* the number of iterations of the running drawBatch so far
PassCount == Len(passes)

\* the whole batch fits between the ring cursor at entry and the ring's end
FitsInOnePass ==
    hasResources /\ EntryVertexOffset + 4 * quadCount <= vertexCapacity

\* C4 as stated: for a batch of N quads whose state token changes K times
\* along order, and a ring with room for all N quads in one pass, drawBatch
\* issues exactly K + 1 gl.drawIndexed calls
C4_DrawCallsAreChangesPlusOne ==
    (Done /\ FitsInOnePass) => DrawCalls(PassCount) = StateChanges + 1

\* C4, amended: the same for a batch of N >= 1 quads (for an empty batch no
\* draw call is issued)
C4_DrawCallsAreChangesPlusOneNonEmpty ==
    (Done /\ FitsInOnePass /\ quadCount >= 1) =>
        DrawCalls(PassCount) = StateChanges + 1

\* two quads of different state were drawn in one iteration with two draw
\* calls
C4_TwoQuadsTwoDraws ==
    /\ Done /\ FitsInOnePass
    /\ quadCount = 2 /\ StateChanges = 1
    /\ PassCount = 1 /\ DrawCalls(PassCount) = 2

\* the index slot where the indices of sorted position p start, for a
\* position p buffered in iteration P
IndexSlotOf(P, p) == P.baseIndex + 6 * (p - P.offset)

\* the draw call d reads index slot s
Reads(d, s) ==
    d.op = "draw" /\ d.startIndex <= s /\ s < d.startIndex + d.count

\* the sorted positions buffered in iteration P
PositionsOf(P) == P.offset..(P.offset + P.n - 1)

\* C5 as stated: every sorted position p is covered by a draw call issued
\* while the state last handed to applyState is state[order[p]], also for
\* positions drawn by a drawRegion call with a non-zero offset
C5_DrawnUnderOwnState ==
    \A k \in 1..PassCount :
        LET P == passes[k]
        IN  \A p \in PositionsOf(P) :
                /\ \E j \in 1..Len(P.ops) : Reads(P.ops[j], IndexSlotOf(P, p))
                /\ \A j \in 1..Len(P.ops) :
                       Reads(P.ops[j], IndexSlotOf(P, p)) =>
                           P.ops[j].state = TokenAt(p)

\* where a sequence of calls that starts reading at index slot from stops,
\* when its draw calls read consecutive ranges of at least one quad; -1 when
\* they do not
RECURSIVE DrawsEnd(_, _)
DrawsEnd(ops, from) ==
    IF from = -1 \/ ops = <<>> THEN from
    ELSE LET o == Head(ops)
         IN  IF o.op # "draw" THEN DrawsEnd(Tail(ops), from)
             ELSE IF o.startIndex = from /\ o.count >= 6 /\ o.count % 6 = 0
             THEN DrawsEnd(Tail(ops), from + o.count)
             ELSE -1

\* C6: with a ring of at least one quad, the iterations of drawBatch have the
\* vertex generator produce the sorted positions 0..count-1 once each, in
\* consecutive ranges [offset, offset + n) in increasing order, each quad read
\* through order; the draw calls of an iteration read exactly the indices
\* buffered in it
C6_PassesCoverOrderOnce ==
    (pc = "loop" /\ vertexCapacity >= 4) =>
        /\ \A k \in 1..PassCount :
               LET P == passes[k]
               IN  /\ P.n >= 1
                   /\ P.offset = IF k = 1 THEN 0
                                 ELSE passes[k - 1].offset + passes[k - 1].n
                   /\ P.gen = <<[bufferOffset |-> P.baseVertex,
                                 batchOffset |-> P.offset,
                                 quadCount |-> P.n]>>
                   /\ DOMAIN P.vertexData
                          = P.baseVertex..(P.baseVertex + 4 * P.n - 1)
                   /\ \A p \in PositionsOf(P), c \in 0..3 :
                          P.vertexData[P.baseVertex + 4 * (p - P.offset) + c]
                              = [quad |-> order[p], corner |-> c]
                   /\ DrawsEnd(P.ops, P.baseIndex) = P.baseIndex + 6 * P.n
        /\ dbQuadIndex = IF PassCount = 0 THEN 0
                         ELSE passes[PassCount].offset + passes[PassCount].n
        /\ dbQuadIndex + dbQuadCount = quadCount
        /\ Done => dbQuadIndex = quadCount

\* a batch whose order is not the identity was drawn in several iterations
C6_SortedBatchInSeveralPasses ==
    /\ Done /\ vertexCapacity >= 4
    /\ PassCount >= 2
    /\ order[0] # 0

\* C7 as stated: for every batch size, ring capacity and starting cursor,
\* every iteration with quads remaining buffers at least one quad (so the
\* loop ends)
C7_EveryPassBuffers ==
    \A k \in 1..PassCount : passes[k].n >= 1

\* C7 restricted to rings of at least one quad: every iteration buffers at
\* least one quad, so drawBatch returns after at most count iterations
C7_EveryPassBuffersInRing ==
    (pc = "loop" /\ vertexCapacity >= 4) =>
        /\ \A k \in 1..PassCount : passes[k].n >= 1
        /\ PassCount <= dbQuadIndex
        /\ dbQuadCount >= 0
        /\ dbQuadIndex + dbQuadCount = quadCount
        /\ dbQuadCount > 0 => ENABLED DrawBatchPass

\* three quads drawn in two iterations, from a cursor in the middle of a ring
\* of two quads
C7_TwoPassesFromMidRing ==
    /\ Done
    /\ vertexCapacity = 8 /\ EntryVertexOffset = 4
    /\ quadCount = 3 /\ PassCount = 2

\* the smaller of two numbers
Min(a, b) == IF a < b THEN a ELSE b

\* the capacity of the ring in quads
RingQuads == vertexCapacity \div 4

\* a drawBatch of 2C + 1 quads of one state on a ring of C quads whose cursor
\* was at 0
TwoRingsAndOne ==
    /\ pc = "loop" /\ hasResources
    /\ EntryVertexOffset = 0
    /\ quadCount = 2 * RingQuads + 1
    /\ UniformState

\* every iteration buffers min(remaining, C - c') quads, c' the cursor in
\* quads at its start
PassSizesClamped ==
    \A k \in 1..PassCount :
        passes[k].n = Min(passes[k].request,
                          RingQuads - (passes[k].baseVertex \div 4))

\* the iterations so far are the first of three of sizes C, C and 1
PassSizesCC1 ==
    /\ PassCount <= 3
    /\ \A k \in 1..PassCount : passes[k].n = <<RingQuads, RingQuads, 1>>[k]
    /\ Done => PassCount = 3

\* C8 as stated: on a ring of C quads with the cursor at 0, a batch of 2C + 1
\* quads of one state is drawn in exactly 3 iterations of sizes C, C and 1;
\* in general every iteration buffers min(remaining, C - c') quads
C8_PassSizes ==
    /\ PassSizesClamped
    /\ TwoRingsAndOne => PassSizesCC1

\* C8 restricted to rings of C >= 1 quads: the same sizes C, C and 1, and
\* min(remaining, C - c') quads in every iteration
C8_PassSizesInRing ==
    /\ PassSizesClamped
    /\ (TwoRingsAndOne /\ RingQuads >= 1) => PassSizesCC1

\* three quads of one state drawn on a ring of one quad
C8_ThreeQuadsOnRingOfOne ==
    /\ TwoRingsAndOne /\ Done
    /\ RingQuads = 1 /\ PassCount = 3

\* iteration P uploaded the len bytes at byte offset off of the buffer target
Uploaded(P, target, off, len) ==
    \E u \in 1..Len(P.uploads) :
        /\ P.uploads[u].target = target
        /\ P.uploads[u].byteOffset <= off
        /\ off + len <= P.uploads[u].byteOffset + P.uploads[u].byteLength

\* C9: every draw call reads only index slots written and uploaded in its own
\* iteration, and each index read names a vertex slot written and uploaded in
\* that iteration with the matching corner of the quad at the sorted position
\* the index belongs to
C9_DrawsReadOwnPass ==
    \A k \in 1..PassCount :
        LET P == passes[k]
        IN  \A j \in 1..Len(P.ops) :
                P.ops[j].op = "draw" =>
                    \A s \in P.ops[j].startIndex..
                             (P.ops[j].startIndex + P.ops[j].count - 1) :
                        /\ s \in DOMAIN P.indexData
                        /\ Uploaded(P, "ELEMENT_ARRAY_BUFFER", s * IndexSize,
                                    IndexSize)
                        /\ P.indexData[s] \in DOMAIN P.vertexData
                        /\ Uploaded(P, "ARRAY_BUFFER",
                                    P.indexData[s] * VertexSize, VertexSize)
                        /\ P.vertexData[P.indexData[s]] =
                               [quad |-> Rd(order, P.offset
                                              + ((s - P.baseIndex) \div 6)),
                                corner |-> QuadIndices[
                                              ((s - P.baseIndex) % 6) + 1]]

\* the ring wrapped: the first iteration wrote up to the end of the ring, the
\* second one at its start
C9_SecondPassAfterWrap ==
    /\ PassCount >= 2
    /\ passes[1].baseVertex > 0
    /\ passes[2].baseVertex = 0 /\ passes[2].n >= 1

\* C10: on an empty batch sort changes nothing and drawBatch makes no call at
\* all (no generator call, no upload, no applyState, no draw call) and leaves
\* the ring cursors and currentState as they were
C10_EmptyBatchDrawsNothing ==
    quadCount = 0 =>
        /\ \A cmp \in Comparators : sort(order, depth, quadCount, cmp) = order
        /\ pc = "loop" =>
               /\ passes = <<>>
               /\ dbQuadCount = 0
               /\ entry = <<vertexOffset, indexOffset, currentState,
                            appliedState>>

\* drawBatch runs on a batch that held quads and was flushed, with the ring
\* cursor past a buffered quad
C10_DrawAfterFlush ==
    /\ pc = "loop" /\ quadCount = 0
    /\ depth[0] # 0
    /\ hasResources /\ vertexOffset > 0

(* ------------------------ claims about the ring ------------------------ *)
\* both cursors are inside the ring
CursorsInsideRing ==
    /\ 0 <= vertexOffset /\ vertexOffset < vertexCapacity
    /\ 0 <= indexOffset /\ indexOffset < indexCapacity

\* this step is a bufferData call, made by a caller or by drawBatch
BufferDataStep ==
    \/ \E offset \in BufferOffsets, count \in BufferCounts :
           BufferDataCall(offset, count)
    \/ DrawBatchPass

\* what the bufferData call of this step did
Buffered == IF pc = "loop" THEN passes'[Len(passes')] ELSE lastBuffer'

\* a bufferData call that fills the ring exactly leaves both cursors at 0
FillWraps ==
    (BufferDataStep /\ vertexOffset + 4 * Buffered.n = vertexCapacity) =>
        (vertexOffset' = 0 /\ indexOffset' = 0)

\* C11 as stated: while the effect has its resources, after every bufferData
\* call and between the calls of any sequence of drawBatch calls,
\* 0 <= vertexCursor < vertexCapacity and 0 <= indexCursor < indexCapacity
\* (the ring is Empty or Partial, never Full or beyond), and a call that fills
\* the ring exactly leaves both cursors at 0
C11_CursorsBelowCapacity ==
    /\ [](hasResources => CursorsInsideRing)
    /\ [][FillWraps]_vars

\* C11, amended: the same for a ring of at least one quad (in a ring of
\* capacity 0 both cursors stay at 0 = capacity)
C11_CursorsBelowCapacityInRing ==
    /\ [](vertexCapacity >= 4 => CursorsInsideRing)
    /\ [](vertexCapacity = 0 => (vertexOffset = 0 /\ indexOffset = 0))
    /\ [][FillWraps]_vars

\* a bufferData call that started inside the ring filled it to its end and
\* the cursors are back at 0
C11_FilledAndWrapped ==
    /\ lastBuffer # <<>>
    /\ lastBuffer.baseVertex > 0 /\ lastBuffer.n >= 1
    /\ lastBuffer.baseVertex + 4 * lastBuffer.n = vertexCapacity
    /\ vertexOffset = 0 /\ indexOffset = 0

\* the free quad slots of the ring
FreeQuads == (vertexCapacity - vertexOffset) \div 4

\* C12: bufferData(batch, offset, count, gen) returns
\* n = min(count, (vertexCapacity - vertexCursor) / 4), the whole request when
\* it fits, and the generator is invoked with (vertexCursor, offset, n) and
\* with nothing else
C12_BufferDataReturnsWhatFits ==
    [][\A offset \in BufferOffsets, count \in BufferCounts :
           BufferDataCall(offset, count) =>
               /\ lastBuffer'.n = Min(count, FreeQuads)
               /\ lastBuffer'.n >= 1 =>
                      lastBuffer'.gen = <<[bufferOffset |-> vertexOffset,
                                           batchOffset |-> offset,
                                           quadCount |-> lastBuffer'.n]>>
               /\ lastBuffer'.n = 0 => lastBuffer'.gen = <<>>]_vars

\* a call from a cursor inside the ring, for quads from offset 1 on, that
\* returned less than was asked for
C12_ShortResult ==
    /\ lastBuffer # <<>>
    /\ lastBuffer.offset = 1 /\ lastBuffer.baseVertex > 0
    /\ lastBuffer.n >= 1 /\ lastBuffer.n < lastBuffer.request

\* a bufferData call of this step that returned 0 did nothing: no generator
\* call, no upload, both cursors as before
ZeroIsNoOp ==
    (BufferDataStep /\ Buffered.n = 0) =>
        /\ Buffered.gen = <<>> /\ Buffered.uploads = <<>>
        /\ vertexOffset' = vertexOffset /\ indexOffset' = indexOffset

\* C13 as stated: bufferData returns 0 only when the ring is exactly full (no
\* free quad slot), and a call that returns 0 does nothing
C13_ZeroOnlyWhenFull ==
    [][/\ (BufferDataStep /\ Buffered.n = 0) => FreeQuads = 0
       /\ ZeroIsNoOp]_vars

\* C13, amended: for a request of at least one quad bufferData returns 0 only
\* when the ring has no free quad slot; a request of 0 quads returns 0 on any
\* ring; a call that returns 0 does nothing
C13_ZeroOnlyWhenFullOrNoRequest ==
    [][/\ (BufferDataStep /\ Buffered.n = 0) =>
              (FreeQuads = 0 \/ Buffered.request = 0)
       /\ ZeroIsNoOp]_vars

\* a call for two quads returned 0 on a ring without a slot, the cursors at 0
C13_ZeroOnFullRing ==
    /\ lastBuffer # <<>>
    /\ lastBuffer.request = 2 /\ lastBuffer.n = 0
    /\ hasResources /\ vertexCapacity = 0 /\ vertexOffset = 0

(* --------------------- claims about applyState ------------------------- *)
\* the applyState calls among ops
AppliesOf(ops) == SelectSeq(ops, LAMBDA o : o.op = "apply")

\* the number of applyState calls of the first k iterations
RECURSIVE ApplyCalls(_)
ApplyCalls(k) ==
    IF k = 0 THEN 0 ELSE ApplyCalls(k - 1) + Len(AppliesOf(passes[k].ops))

\* currentState when the running drawBatch was called
EntryCurrentState == entry[3]

\* iteration k starts where the state token does not change: the last quad of
\* iteration k - 1 and the first quad of iteration k carry the same token
SameTokenAcross(k) ==
    /\ passes[k - 1].n >= 1 /\ passes[k].n >= 1
    /\ TokenAt(passes[k].offset - 1) = TokenAt(passes[k].offset)

\* C14 as stated: when a batch is drawn in several iterations and the last
\* quad of one iteration and the first quad of the next carry the same state
\* token, the next iteration does not start with an applyState call; a batch
\* of one state drawn after makeCurrent has applyState called exactly once,
\* however many iterations it takes
C14_NoApplyAtPassBoundary ==
    /\ \A k \in 2..PassCount :
           SameTokenAcross(k) => passes[k].ops[1].op # "apply"
    /\ (Done /\ quadCount >= 1 /\ UniformState /\ EntryCurrentState = Null) =>
           ApplyCalls(PassCount) = 1

\* the state token last applied when the running drawBatch was called
EntryAppliedState == entry[4]

\* the running drawBatch is the first drawing since a makeCurrent that reset
\* currentState from an applied state, and has buffered quads
FirstPassAfterMakeCurrent ==
    /\ PassCount >= 1 /\ passes[1].n >= 1
    /\ EntryCurrentState = Null /\ EntryAppliedState # Null

\* C15 as stated: makeCurrent sets currentState to null, and the first
\* drawBatch after it on a batch with quads calls applyState with the state
\* token of the first quad before it issues any draw call, whatever state was
\* current before and whatever that token is
C15_ApplyBeforeFirstDraw ==
    /\ [][MakeCurrent => currentState' = Null]_vars
    /\ [](FirstPassAfterMakeCurrent =>
              passes[1].ops[1] = ApplyOp(TokenAt(0)))

(* ----------------------- claims about QuadBatch ------------------------ *)
\* 0 <= count <= capacity
CountInRange == 0 <= quadCount /\ quadCount <= quadCapacity

\* this step is an add to a full batch
AddToFull ==
    /\ quadCount = quadCapacity
    /\ \E st \in Tokens, d \in Depths : Add(st, d)

\* C16 as stated: in every state a QuadBatch reaches by any sequence of add,
\* sort, flush and resize calls, 0 <= count <= capacity
C16_CountWithinCapacity == CountInRange

\* C16, amended: 0 <= count <= capacity holds after construction and is kept
\* by every add, sort, flush and resize call other than an add to a full
\* batch (which makes count = capacity + 1)
C16_CountWithinCapacityUnlessAddToFull ==
    /\ CountInRange
    /\ [][(CountInRange /\ ~AddToFull) => CountInRange']_vars
    /\ [][(CountInRange /\ AddToFull) => quadCount' = quadCapacity' + 1]_vars

\* a batch filled to its capacity and sorted
C16_FullSortedBatch ==
    /\ quadCount = quadCapacity /\ quadCapacity >= 2
    /\ order[0] # 0

\* the batch below slot c is as it was before this step
SlotsBelowUnchanged(c) ==
    \A i \in 0..(c - 1) :
        /\ depth'[i] = depth[i]
        /\ state'[i] = state[i]
        /\ order'[i] = order[i]

IdentityBelow(k) == \A i \in 0..(k - 1) : order[i] = i

\* C18: flush sets count to 0 and changes nothing else (capacity and storage
\* are kept, a flush of an empty batch changes nothing at all); the adds that
\* follow a flush return 0, 1, ... again and leave order the identity on
\* [0, k)
C18_FlushOnlyResetsCount ==
    [][/\ Flush =>
              /\ quadCount' = 0
              /\ UNCHANGED <<quadCapacity, order, depth, state, rects>>
              /\ quadCount = 0 => UNCHANGED vars
       /\ \A st \in Tokens, d \in SortDepths :
              (quadCount < quadCapacity /\ Add(st, d)
                  /\ IdentityBelow(quadCount)) =>
                  /\ addReturns = quadCount
                  /\ IdentityBelow(quadCount)']_vars

\* three quads were sorted and flushed, and two quads were added again: the
\* storage still holds the third quad, order is the identity on [0, 2)
C18_RefilledAfterFlush ==
    /\ quadCapacity = 3 /\ quadCount = 2
    /\ depth[2] # 0 /\ order[2] # 2
    /\ order[0] = 0 /\ order[1] = 1

\* every insertion index add can store in order is stored as it is
IndicesFitOrder == \A i \in 0..(quadCapacity - 1) : ToUint16(i) = i

\* C19 as stated: resize (and with it the constructor) clamps the capacity
\* asked for to the maximum of 65536, so the capacity never exceeds 65536 and
\* every insertion index is stored in the 16-bit order array as it is; after
\* resize the batch is empty
C19_ResizeClampsCapacity ==
    /\ [](quadCapacity <= MAX_CAPACITY /\ IndicesFitOrder)
    /\ [][\A capacity \in ResizeRequests :
              Resize(capacity) => quadCount' = 0]_vars

(* -------------------- claims about createResources -------------------- *)
\* the first stage that fails, and the source text that belongs to it
FailingStage(vsOk, fsOk, linkOk) ==
    IF ~vsOk THEN COMPILE_VS ELSE IF ~fsOk THEN COMPILE_FS ELSE LINK_PROGRAM

FailingSource(vsOk, fsOk, linkOk) ==
    IF ~vsOk THEN "vss" ELSE IF ~fsOk THEN "fss" ELSE "vss\n\nfss"

\* exactly one error was emitted in this step, naming stage and source and
\* carrying the log
OneErrorReported(stage, source) ==
    /\ Len(reported') = Len(reported) + 1
    /\ SubSeq(reported', 1, Len(reported)) = reported
    /\ reported'[Len(reported')].stage = stage
    /\ reported'[Len(reported')].source = source
    /\ reported'[Len(reported')].log = "log"

\* C20 as stated: when compiling the vertex shader, compiling the fragment
\* shader or linking fails during createResources, exactly one error is
\* reported, with the failing stage, the source text and the log, and the
\* effect is left without a program (its program handle is null) until a
\* createResources call succeeds
C20_FailedBuildLeavesNoProgram ==
    [][\A capacity \in 1..MaxRing, vsOk \in BOOLEAN, fsOk \in BOOLEAN,
         linkOk \in BOOLEAN :
           CreateResources(capacity, vsOk, fsOk, linkOk) =>
               IF vsOk /\ fsOk /\ linkOk
               THEN programResource' = Program /\ reported' = reported
               ELSE /\ OneErrorReported(FailingStage(vsOk, fsOk, linkOk),
                                        FailingSource(vsOk, fsOk, linkOk))
                    /\ programResource' = Null]_vars

(* --------------------- claims about applyViewport ---------------------- *)
\* row r of the matrix applied to the point (x, y, z, 1): the terms with a
\* zero coefficient drop out
Row(m, r, x, y, z) ==
    Plus(Plus(Plus(Times(m[r], Num(x)), Times(m[4 + r], Num(y))),
              Times(m[8 + r], Num(z))),
         m[12 + r])

\* the single-precision a is the integer n
Is(a, n) == a.num = n /\ a.den = 1

\* a times d is within 2^-23 * d of the integer n: what is left of n / d
\* after its rounding to single precision was multiplied back by up to 2 d
Near(a, n, d) ==
    LET diff == a.num * d - n * a.den
        abs == IF diff < 0 THEN 0 - diff ELSE diff
    IN  abs <= (a.den * d) \div Pow2(SignificandBits - 1)

PixelDepths == {0, 1}

\* the matrix m maps every pixel point of a width by height viewport to
\* clip space exactly
MapsExactly(m, width, height) ==
    \A x \in 0..width, y \in 0..height, z \in PixelDepths :
        LET xClip == Row(m, 0, x, y, z)
            yClip == Row(m, 1, x, y, z)
        IN  /\ xClip.num * width = (2 * x - width) * xClip.den
            /\ yClip.num * height = (height - 2 * y) * yClip.den
            /\ Is(Row(m, 2, x, y, z), z)
            /\ Is(Row(m, 3, x, y, z), 1)

\* the same up to the rounding of 2 / width and 2 / height, the origin and
\* the depth exactly
MapsNearly(m, width, height) ==
    /\ \A z \in PixelDepths :
           /\ Is(Row(m, 0, 0, 0, z), -1)
           /\ Is(Row(m, 1, 0, 0, z), 1)
    /\ \A x \in 0..width, y \in 0..height, z \in PixelDepths :
           /\ Near(Row(m, 0, x, y, z), 2 * x - width, width)
           /\ Near(Row(m, 1, x, y, z), height - 2 * y, height)
           /\ Is(Row(m, 2, x, y, z), z)
           /\ Is(Row(m, 3, x, y, z), 1)

IsPow2(n) == \E e \in 0..n : Pow2(e) = n

\* C21 as stated: the matrix built by applyViewport(width, height) maps the
\* pixel point (0, 0) to (-1, 1) and (width, height) to (1, -1), with
\* x_clip = 2x/width - 1 and y_clip = 1 - 2y/height, and passes depth through
C21_ViewportMapsPixelsToClipSpace ==
    [][\A width \in 1..MaxDim, height \in 1..MaxDim :
           ApplyViewport(width, height) =>
               /\ MapsExactly(projection', width, height)
               /\ Is(Row(projection', 0, width, height, 0), 1)
               /\ Is(Row(projection', 1, width, height, 0), -1)]_vars

\* C21 amended: the matrix maps (0, 0) to (-1, 1) and passes depth through
\* exactly; x_clip and y_clip are 2x/width - 1 and 1 - 2y/height to within
\* 2^-23, and exactly when width and height are powers of two
C21_ViewportMapsPixelsWithinRounding ==
    [][\A width \in 1..MaxDim, height \in 1..MaxDim :
           ApplyViewport(width, height) =>
               /\ MapsNearly(projection', width, height)
               /\ (IsPow2(width) /\ IsPow2(height)
                      => MapsExactly(projection', width, height))]_vars

\* a viewport whose width is no power of two was applied: the corner is
\* mapped next to, not onto, x_clip = 1
C21_ViewportOfThreeByTwo ==
    /\ projection = applyViewport(3, 2)
    /\ ~Is(Row(projection, 0, 3, 2, 0), 1)
    /\ Is(Row(projection, 1, 3, 2, 0), -1)

(* ------------------------- claims about ptcg --------------------------- *)
\* the batch holds the one quad q, added to fresh storage
TheQuad(q) ==
    /\ quadCount = 1
    /\ rects = addRects(NoRects, quadCapacity, 0, q)

\* the first iteration of the running drawBatch has generated the vertices
\* of a one-quad batch
OneQuadGenerated ==
    /\ quadCount = 1
    /\ PassCount >= 1
    /\ passes[1].n = 1

\* what ptcg wrote in that iteration for the j-th vertex of the quad
GeneratedVertex(j) ==
    LET P == passes[1]
        slot == P.vertexData[P.baseVertex + j]
    IN  ptcgCorner(slot.quad, slot.corner)

\* corner j of the rectangle (x, y, w, h), from the top left clockwise on a
\* screen whose y axis points down
CornerOf(x, y, w, h, j) ==
    CASE j = 0 -> <<x, y>>
      [] j = 1 -> <<x + w, y>>
      [] j = 2 -> <<x + w, y + h>>
      [] j = 3 -> <<x, y + h>>

\* the vertex position is the point pt
PositionIs(vertex, pt) == vertex.x = Num(pt[1]) /\ vertex.y = Num(pt[2])

\* the texture coordinates are exactly the point pt over the image size
TextureIs(vertex, pt, q) ==
    /\ vertex.u.num * q.imageWidth = pt[1] * vertex.u.den
    /\ vertex.v.num * q.imageHeight = pt[2] * vertex.v.den

\* a is n / d up to a relative error of 2^-23
NearQuotient(a, n, d) ==
    LET diff == a.num * d - n * a.den
        abs == IF diff < 0 THEN 0 - diff ELSE diff
    IN  abs <= (n * a.den) \div Pow2(SignificandBits - 1)

\* the texture coordinates are the point pt over the image size up to the
\* rounding of 1 / imageWidth, 1 / imageHeight and the products
TextureNear(vertex, pt, q) ==
    /\ NearQuotient(vertex.u, pt[1], q.imageWidth)
    /\ NearQuotient(vertex.v, pt[2], q.imageHeight)

DrawsTile(ops, base, total) ==
    LET D == DrawsOf(ops)
    IN  /\ Len(D) >= 1
        /\ \A d \in 1..Len(D) : D[d].count > 0 /\ D[d].count % 6 = 0
        /\ D[1].startIndex = base
        /\ \A d \in 2..Len(D) :
               D[d].startIndex = D[d - 1].startIndex + D[d - 1].count
        /\ D[Len(D)].startIndex + D[Len(D)].count = base + total

\* every applyState call but a first one comes right after the draw call of
\* the run it ends, the calls end with a draw call, and a draw call that
\* follows an applyState call is made under the state just applied
DrawsBeforeApplies(ops) ==
    /\ ops[Len(ops)].op = "draw"
    /\ \A j \in 2..Len(ops) :
           /\ ops[j].op = "apply" => ops[j - 1].op = "draw"
           /\ ops[j].op = "draw" /\ ops[j - 1].op = "apply"
                  => ops[j].state = ops[j - 1].state

\* C23: within one drawRegion call over count >= 1 quads starting at
\* baseIndexOffset, the draw call of a finished run is issued before
\* applyState is called for the next run, every draw call covers a positive
\* multiple of 6 indices, and the draw calls cover consecutive ranges whose
\* union is [baseIndexOffset, baseIndexOffset + 6 * count)
C23_DrawRegionTilesItsIndices ==
    \A k \in 1..PassCount :
        passes[k].n >= 1 =>
            /\ DrawsBeforeApplies(passes[k].ops)
            /\ DrawsTile(passes[k].ops, passes[k].drawBase, 6 * passes[k].n)

\* a region of two quads was drawn as two runs with a change of state
\* between them
C23_TwoRunsInOneRegion ==
    \E k \in 1..PassCount :
        /\ passes[k].n = 2
        /\ Len(DrawsOf(passes[k].ops)) = 2
        /\ \E j \in 2..Len(passes[k].ops) : passes[k].ops[j].op = "apply"

\* C24: after drawBatch on a non-empty batch, currentState is the state token
\* of the last quad in sorted order, state[order[count - 1]], for any ring
\* capacity and any number of iterations
C24_CurrentStateIsLastToken ==
    Done /\ quadCount > 0 => currentState = TokenAt(quadCount - 1)

(* ------------------- claims about a buffering pass --------------------- *)
\* in iteration P quad k of the pass occupies the four vertex slots from
\* v + 4k and the six index slots from i + 6k, and its six indices are
\* v + 4k + {1, 0, 2, 2, 0, 3}, in that order
QuadSlots(P, k) ==
    LET v == P.baseVertex
        i == P.baseIndex
    IN  /\ \A c \in 0..3 :
               /\ v + 4 * k + c \in DOMAIN P.vertexData
               /\ P.vertexData[v + 4 * k + c] =
                      [quad |-> Rd(order, P.offset + k), corner |-> c]
        /\ \A j \in 0..5 :
               /\ i + 6 * k + j \in DOMAIN P.indexData
               /\ P.indexData[i + 6 * k + j] =
                      v + 4 * k + QuadIndices[j + 1]

\* every index written in iteration P names a vertex slot written in it,
\* inside the vertex buffer
IndicesInsidePass(P) ==
    \A s \in DOMAIN P.indexData :
        /\ P.baseVertex <= P.indexData[s]
        /\ P.indexData[s] < P.baseVertex + 4 * P.n
        /\ P.indexData[s] < vertexCapacity

\* C25: in a buffering pass that starts at vertex cursor v and index cursor i
\* and buffers n quads, quad k occupies vertex slots v+4k..v+4k+3 and index
\* slots i+6k..i+6k+5, its six indices are v+4k+{1,0,2,2,0,3}, and so every
\* index written lies in [v, v+4n), inside [0, vertexCapacity)
C25_QuadSlotsAndIndices ==
    \A p \in 1..PassCount :
        /\ \A k \in 0..(passes[p].n - 1) : QuadSlots(passes[p], k)
        /\ IndicesInsidePass(passes[p])

\* the uploads to the buffer target among uploads
UploadsTo(uploads, target) == SelectSeq(uploads, LAMBDA u : u.target = target)

\* uploads hold exactly one upload to target, of the len slots of size bytes
\* each from slot first on, and these lie inside a buffer of cap slots
OneUploadOf(uploads, target, first, len, size, cap) ==
    LET U == UploadsTo(uploads, target)
    IN  /\ Len(U) = 1
        /\ U[1].byteOffset = first * size
        /\ U[1].byteLength = len * size
        /\ first >= 0 /\ first + len <= cap
        /\ (U[1].byteOffset = 0 /\ U[1].byteLength = cap * size)
               => (first = 0 /\ vertexOffset' = 0 /\ indexOffset' = 0)

C27_CreateAndDeleteSetTheRing ==
    [][/\ \A q \in 0..MaxRing :
              CreateResources(q, TRUE, TRUE, TRUE) =>
                  /\ vertexCapacity' = 4 * q /\ indexCapacity' = 6 * q
                  /\ vertexOffset' = 0 /\ indexOffset' = 0
       /\ DeleteResources =>
              /\ vertexCapacity' = 0 /\ indexCapacity' = 0
              /\ vertexOffset' = 0 /\ indexOffset' = 0]_vars

\* the last bufferData call left the ring Partial, with the cursors one quad
\* into it, and the resources were created again since
C27_CreatedAgainAfterPartial ==
    /\ lastBuffer # <<>>
    /\ lastBuffer.vertexOffset = 4 /\ lastBuffer.indexOffset = 6
    /\ hasResources
    /\ vertexCapacity = 8 /\ indexCapacity = 12
    /\ vertexOffset = 0 /\ indexOffset = 0

(* ---------------------- claims about sort's frame ---------------------- *)
\* C28: sort changes only the entries order[0..count): count, capacity, the
\* state tokens, the depths, the other attribute arrays and the entries of
\* order at positions >= count are left as they were
C28_SortChangesOnlyOrderBelowCount ==
    [][\A cmp \in Comparators :
           Sort(cmp) =>
               /\ UNCHANGED <<quadCount, quadCapacity, state, depth, rects>>
               /\ DOMAIN order' = DOMAIN order
               /\ \A p \in DOMAIN order :
                      p >= quadCount => order'[p] = order[p]]_vars

\* two quads were sorted into the reverse of their insertion order in a
\* batch whose third slot still holds the entry of an earlier quad
C28_SortedBelowStaleEntry ==
    /\ quadCapacity = 3
    /\ quadCount = 2
    /\ order[0] = 1 /\ order[1] = 0 /\ order[2] = 2
    /\ state[2] # Undefined

(* ----------------------- claims about the Emitter ---------------------- *)
\* how many times the function f occurs in a sequence of functions
Occurrences(fs, f) == Cardinality({i \in DOMAIN fs : fs[i] = f})

\* the functions in a sequence
Functions(fs) == {fs[i] : i \in DOMAIN fs}

\* C29: a listener registered with once(event, cb) is invoked on the first
\* emit of that event and on no later one, and every other listener
\* registered for the event, before or after it, is still invoked exactly
\* once by that same emit: an emit returns normally after it has invoked
\* every registration of the event once, and the functions made by once()
\* are no longer registered after it
C29_OnceListenerFiresOnceOthersStillFire ==
    [][\A event \in Events :
           Emit(event) =>
               /\ ~lastEmit'.threw
               /\ \A f \in Functions(listeners[event]) :
                      /\ Occurrences(lastEmit'.calls, f)
                             = Occurrences(listeners[event], f)
                      /\ f.wrapper # 0
                             => f \notin Functions(listeners'[event])]_vars

(* --------------------- claims about vertex layouts --------------------- *)
\* the byte offsets of the attributes increase along the array
IncreasingOffsets(attrs) ==
    \A i \in 1..(Len(attrs) - 1) : attrs[i].byteOffset < attrs[i + 1].byteOffset

\* C30: for every array of attributes in increasing byte-offset order,
\* computeBufferElementSize returns the byte offset of the last attribute
\* plus the size of that attribute (32 for the quad vertex: offsets 0, 16,
\* 20 and a final attribute of 12 bytes)
C30_ElementSizeIsLastOffsetPlusSize ==
    [][ComputeBufferElementSize =>
           /\ (attributes # <<>> /\ IncreasingOffsets(attributes))
                  => elementSize' =
                         attributes[Len(attributes)].byteOffset
                             + computeAttributeSize(attributes[Len(attributes)])
           /\ attributes = PTCG => elementSize' = 32]_vars

(* -------------------- claims about 16-bit indices ---------------------- *)
\* the vertex slot that the index in slot s of iteration P is meant to name
MeantVertex(P, s) ==
    P.baseVertex + 4 * ((s - P.baseIndex) \div 6)
        + QuadIndices[((s - P.baseIndex) % 6) + 1]

\* C31: every index value written to the 16-bit index staging buffer equals
\* the vertex slot it is meant to name, without wrapping modulo 2^16, for
\* every capacity createResources accepts: the last vertex slot,
\* vertexCapacity - 1, can be written in 16 bits
C31_IndicesNameTheirVertexSlots ==
    /\ hasResources => vertexCapacity - 1 < 65536
    /\ \A p \in 1..PassCount :
           \A s \in DOMAIN passes[p].indexData :
               passes[p].indexData[s] = MeantVertex(passes[p], s)

(* --------------------- claims about the two cursors -------------------- *)
\* both ring cursors stand at the start of the same quad slot
CursorsAtSameQuad ==
    /\ vertexOffset % 4 = 0
    /\ indexOffset % 6 = 0
    /\ indexOffset \div 6 = vertexOffset \div 4

\* C32: in every reachable state of a QuadEffect the two ring cursors denote
\* the same quad slot (the vertex cursor is a multiple of 4, the index
\* cursor a multiple of 6, and indexOffset / 6 = vertexOffset / 4), before
\* and after every step, and both cursors go back to 0 in the same step
C32_CursorsDenoteTheSameQuadSlot ==
    [][/\ CursorsAtSameQuad
       /\ CursorsAtSameQuad'
       /\ (vertexOffset # 0 /\ vertexOffset' = 0)
              <=> (indexOffset # 0 /\ indexOffset' = 0)]_vars

\* a caller's bufferData call started one quad into a ring of two, filled
\* the ring and left both cursors at 0
C32_BothCursorsWrapped ==
    /\ lastBuffer # <<>>
    /\ vertexCapacity = 8 /\ indexCapacity = 12
    /\ lastBuffer.baseVertex = 4 /\ lastBuffer.baseIndex = 6
    /\ lastBuffer.n = 1
    /\ lastBuffer.vertexOffset = 0 /\ lastBuffer.indexOffset = 0
    /\ vertexOffset = 0 /\ indexOffset = 0

(* ------------------ claims about drawing and the batch ----------------- *)
\* the quads whose vertices iteration P generated, in the order of their
\* vertex slots
QuadsOfPass(P) ==
    [k \in 1..P.n |-> P.vertexData[P.baseVertex + 4 * (k - 1)].quad]

\* the quads the iterations ps generated, in order
RECURSIVE SubmittedQuads(_)
SubmittedQuads(ps) ==
    IF ps = <<>> THEN <<>>
    ELSE SubmittedQuads(SubSeq(ps, 1, Len(ps) - 1)) \o QuadsOfPass(ps[Len(ps)])

\* the quads of the batch in sorted order: order[0..count)
BatchQuads == [k \in 1..quadCount |-> order[k - 1]]

\* C33: bufferData, drawRegion and drawBatch never modify the QuadBatch:
\* count, capacity, order and every attribute array are the same after each
\* of their steps as before it, so that a drawBatch submits order[0..count)
\* of the batch as it was handed in, whatever was drawn before
C33_DrawingLeavesTheBatchAlone ==
    [][/\ (pc = "loop" \/ pc' = "loop" \/ BufferDataStep)
              => UNCHANGED <<quadCount, quadCapacity, order, depth, state,
                             rects>>
       /\ (pc' = "loop" /\ dbQuadCount' <= 0)
              => SubmittedQuads(passes') = BatchQuads]_vars

\* three sorted quads were drawn on a ring of two by a drawBatch that
\* started where an earlier one had left the cursor, one quad into the ring
C33_SortedBatchDrawnAgain ==
    /\ Done
    /\ quadCount = 3 /\ order[0] # 0
    /\ vertexCapacity = 8 /\ EntryVertexOffset = 4
    /\ PassCount = 2
    /\ SubmittedQuads(passes) = BatchQuads

(* -------------------- claims about sorting again ----------------------- *)
\* order with its first count entries in insertion order
InsertionOrder ==
    [p \in DOMAIN order |-> IF p < quadCount THEN p ELSE order[p]]

\* C34: the result of sort with a standard comparator depends only on the
\* depths and the insertion indices, not on the permutation held in order:
\* it is what sorting the insertion order gives; sorting a second time with
\* the same comparator changes nothing, and sorting with one comparator and
\* then with another gives what sorting with the other alone gives
C34_SortResultIgnoresCurrentOrder ==
    [][\A cmp \in Comparators :
           Sort(cmp) =>
               /\ order' = sort(InsertionOrder, depth, quadCount, cmp)
               /\ sort(order', depth, quadCount, cmp) = order'
               /\ \A next \in Comparators :
                      sort(order', depth, quadCount, next)
                          = sort(order, depth, quadCount, next)]_vars

\* three quads, the last two of equal depth, stand sorted front to back:
\* sorting them back to front would change order, front to back would not
C34_SortedFrontToBackWithTie ==
    /\ quadCount = 3
    /\ depth[0] = 2 /\ depth[1] = 1 /\ depth[2] = 1
    /\ order[0] = 1 /\ order[1] = 2 /\ order[2] = 0
    /\ sort(order, depth, quadCount, "frontToBack") = order
    /\ sort(order, depth, quadCount, "backToFront") # order

(* --------------------- claims about removeListener --------------------- *)
\* C35: removeListener(event, cb) removes only the listener cb: every other
\* listener of the event stays registered (and so is invoked by the next
\* emit), the listeners of other events are left alone, and when cb is not
\* registered for the event its list of listeners is left unchanged
C35_RemoveListenerRemovesOnlyThatListener ==
    [][\A event \in Events, callback \in Callbacks :
           RemoveListener(event, callback) =>
               /\ \A f \in Functions(listeners[event]) :
                      f # Listener(callback, 0) =>
                          Occurrences(listeners'[event], f)
                              = Occurrences(listeners[event], f)
               /\ \A other \in Events \ {event} :
                      listeners'[other] = listeners[other]
               /\ Listener(callback, 0) \notin Functions(listeners[event])
                      => listeners'[event] = listeners[event]]_vars

(* --------------------- claims about the bind cache --------------------- *)
\* the buffer the cache holds for target is the one the driver has bound
Coherent(target) ==
    bound[target] = IF activeBuffer[target] = Null THEN Null
                    ELSE buffers[activeBuffer[target]].bufferResource

\* C36: the bind cache is coherent with the driver: in every reachable
\* state the cached activeArrayBuffer / activeElementBuffer is the buffer
\* bound in the driver, for any interleaving of createBufferResource,
\* useBuffer, unbindBuffer and deleteBufferResource over several buffers, so
\* that after useBuffer(proxy) the buffer of the proxy is the one bound
C36_BindCacheIsCoherent ==
    [][/\ \A target \in Targets : Coherent(target) /\ Coherent(target)'
       /\ \A proxy \in Proxies :
              (UseBuffer(proxy) /\ buffers[proxy].bindTarget \in Targets)
                  => bound'[buffers[proxy].bindTarget]
                         = buffers[proxy].bufferResource]_vars

(* ------------------------ claims about the heap ------------------------ *)
\* array[0..last] is a max-heap for siftDown: no entry compares below one of
\* its children, the children of position r being 2r and 2r + 1 (position 0
\* has the single child 1)
IsHeap(array, dep, last, cmp) ==
    \A r \in 0..last :
        \A c \in {2 * r, 2 * r + 1} :
            (c <= last /\ c # r) =>
                Compare(cmp, dep, array[r], array[c]) >= 0

\* array[0] sorts last among array[0..last]
RootSortsLast(array, dep, last, cmp) ==
    \A p \in 0..last : Compare(cmp, dep, array[0], array[p]) >= 0

\* order after heapify and the first k pop-to-end steps of sort
RECURSIVE AfterPops(_, _, _, _, _)
AfterPops(array, dep, c, cmp, k) ==
    IF k = 0 THEN heapify(array, dep, c, cmp)
    ELSE siftDown(SwapEntries(AfterPops(array, dep, c, cmp, k - 1), 0, c - k),
                  dep, 0, c - k - 1, cmp)

==========================================================================
